---------------------------- MODULE Spec2Model ----------------------------
(***************************************************************************)
(* A model of the access-control and transactional-consistency layer of    *)
(* realworld-axum-sqlx: the signed session token and the two extractors    *)
(* built on it (src/http/extractor.rs), and the ownership-gated mutations  *)
(* of articles and comments, the unique-field writes of users and          *)
(* articles, and the scoped transaction of update_article                  *)
(* (src/http/articles/mod.rs, src/http/articles/comments.rs,               *)
(* src/http/users.rs).                                                     *)
(*                                                                         *)
(* Strings the code takes apart (titles, slugs) are sequences of           *)
(* one-character strings; strings it only compares are TLA+ strings.       *)
(***************************************************************************)
EXTENDS Integers, Sequences, FiniteSets, TLC

VARIABLES
    now,        \* the clock, in whole unix seconds (OffsetDateTime::now_utc().unix_timestamp())
    ticks,      \* how many times the clock has advanced (bounds the run)
    issued,     \* ghost: the tokens to_jwt has returned, each with its subject and issue time
    authReq,    \* the last request given to an extractor: which extractor, which header
    authRes,    \* what that extractor returned, and what it logged
    db,         \* the committed contents of the store, one set of rows per table
    tx,         \* per request task: its open transaction's pending writes, or NoTx
    rowLock,    \* the article rows locked by "select ... for update": <<article_id, task>>
    calls       \* per request task: the handler it runs, its arguments, position and result

authVars == <<now, ticks, issued, authReq, authRes>>
storeVars == <<db, tx, rowLock, calls>>
vars == <<now, ticks, issued, authReq, authRes, db, tx, rowLock, calls>>

(***************************************************************************)
(* Bounds of the model.                                                    *)
(***************************************************************************)
MaxTicks == 3
MaxIssued == 1
MaxArticles == 2
MaxComments == 1
MaxUsers == 2
\* threads of the runtime that poll request tasks, and threads of its
\* blocking pool
WorkerThreads == 1
MaxBlockingThreads == 1
\* the longest title given to slugify on its own
MaxTitleLen == 5

(***************************************************************************)
(* TokenCodec and AuthGate: src/http/extractor.rs                          *)
(***************************************************************************)

\* time::Duration::weeks(2), in seconds
DEFAULT_SESSION_LENGTH == 1209600

SCHEME_PREFIX == "Token "

\* user ids (Uuid)
UserIds == 1..MaxUsers

\* Option<T>
None == <<>>
Some(x) == <<x>>

\* ctx.config.hmac_key, and a key the server does not use
ServerKey == "hmac_key"
Keys == {ServerKey, "other_key"}

\* the algorithm a JWT header can declare; Hmac<Sha384> is HS384
Algs == {"HS384", "HS256", "none"}
KeyAlgorithm == "HS384"

\* claims that do not deserialize into AuthUserClaims
BadClaims == [malformed |-> TRUE]

\* a header payload that is not three base64 segments
Garbage == [kind |-> "garbage"]

AuthUserClaims(user_id, exp) == [user_id |-> user_id, exp |-> exp]

\* HMAC over the signing input (header and claims) under a key, as an ideal MAC:
\* two signatures are equal only if key, header and claims are; `flip` is a
\* signature segment with one bit changed.
HmacSign(key, alg, claims) == [key |-> key, alg |-> alg, claims |-> claims, flip |-> 0]

FlipBit(sig) == [sig EXCEPT !.flip = 1 - @]

\* a token signed as the JWT spec's recommended HS256 instead
to_jwt_sha256(user_id, key, t) ==
    LET claims == AuthUserClaims(user_id, t + DEFAULT_SESSION_LENGTH)
    IN  [kind |-> "jwt", alg |-> "HS256", claims |-> claims,
         sig |-> HmacSign(key, "HS256", claims)]

\* AuthUser::to_jwt
to_jwt(user_id, key, t) ==
    LET claims == AuthUserClaims(user_id, t + DEFAULT_SESSION_LENGTH)
    IN  [kind |-> "jwt", alg |-> KeyAlgorithm, claims |-> claims,
         sig |-> HmacSign(key, KeyAlgorithm, claims)]

\* jwt::Token::parse_unverified: the three segments must decode and the claims
\* must deserialize into AuthUserClaims
parse_unverified(payload) ==
    IF payload.kind # "jwt" THEN [ok |-> FALSE]
    ELSE IF payload.claims = BadClaims THEN [ok |-> FALSE]
    ELSE [ok |-> TRUE, jwt |-> payload]

\* the MAC comparison of verify_with_key
SignatureMatches(jwt, key) == jwt.sig = HmacSign(key, jwt.alg, jwt.claims)

\* a JWT implementation that trusts the algorithm the token declares
verify_with_key_any_alg(jwt, key) == SignatureMatches(jwt, key)

\* jwt.verify_with_key(&hmac): the declared algorithm must be the key's, then
\* the signature must be the MAC of header and claims
verify_with_key(jwt, key) ==
    /\ jwt.alg = KeyAlgorithm
    /\ SignatureMatches(jwt, key)

\* no expiry test at all
IsExpired_never(claims, t) == FALSE

\* the expiry test of from_authorization
IsExpired(claims, t) == claims.exp < t

\* an error that tells the caller what the log tells the operator
Unauthorized_verbose(log) == [ok |-> FALSE, err |-> log, log |-> log]

\* Err(Error::Unauthorized), and the debug line logged with it ("none": no line)
Unauthorized(log) == [ok |-> FALSE, err |-> "Unauthorized", log |-> log]

NoHeader == [present |-> FALSE]
NonUtf8Header == [present |-> TRUE, utf8 |-> FALSE]
TextHeader(scheme, payload) ==
    [present |-> TRUE, utf8 |-> TRUE, scheme |-> scheme, payload |-> payload]

\* a verification that also looks the subject up in the store
from_authorization_known_user(key, t, auth_header) ==
    IF ~auth_header.utf8 THEN Unauthorized("Authorization header is not UTF-8")
    ELSE IF auth_header.scheme # SCHEME_PREFIX
    THEN Unauthorized("Authorization header is using the wrong scheme")
    ELSE LET parsed == parse_unverified(auth_header.payload) IN
         IF ~parsed.ok THEN Unauthorized("failed to parse Authorization header")
         ELSE IF ~verify_with_key(parsed.jwt, key)
         THEN Unauthorized("JWT failed to verify")
         ELSE IF IsExpired(parsed.jwt.claims, t) THEN Unauthorized("token expired")
         ELSE IF \A u \in db.user : u.user_id # parsed.jwt.claims.user_id
         THEN Unauthorized("user not found")
         ELSE [ok |-> TRUE, auth_user |-> [user_id |-> parsed.jwt.claims.user_id]]

\* AuthUser::from_authorization
from_authorization(key, t, auth_header) ==
    IF ~auth_header.utf8 THEN Unauthorized("Authorization header is not UTF-8")
    ELSE IF auth_header.scheme # SCHEME_PREFIX
    THEN Unauthorized("Authorization header is using the wrong scheme")
    ELSE LET parsed == parse_unverified(auth_header.payload) IN
         IF ~parsed.ok THEN Unauthorized("failed to parse Authorization header")
         ELSE IF ~verify_with_key(parsed.jwt, key)
         THEN Unauthorized("JWT failed to verify")
         ELSE IF IsExpired(parsed.jwt.claims, t) THEN Unauthorized("token expired")
         ELSE [ok |-> TRUE, auth_user |-> [user_id |-> parsed.jwt.claims.user_id]]

\* impl FromRequest for AuthUser
AuthUser_from_request(key, t, header) ==
    IF ~header.present THEN Unauthorized("none")
    ELSE from_authorization(key, t, header)

\* Option<AuthUser> as the extractor: None on any error
MaybeAuthUser_as_Option(key, t, header) ==
    LET res == AuthUser_from_request(key, t, header)
    IN  [ok |-> TRUE, maybe |-> IF res.ok THEN Some(res.auth_user) ELSE None]

\* impl FromRequest for MaybeAuthUser: Ok(Self(None)) without a header, and
\* otherwise from_authorization's result, its error propagated by `?`
MaybeAuthUser_from_request(key, t, header) ==
    IF ~header.present THEN [ok |-> TRUE, maybe |-> None]
    ELSE LET res == from_authorization(key, t, header) IN
         IF res.ok THEN [ok |-> TRUE, maybe |-> Some(res.auth_user)] ELSE res

(***************************************************************************)
(* The requests of the token model: the clock advances, a handler issues   *)
(* a token (create_user, login_user, get_current_user and update_user all  *)
(* call to_jwt), and a request carrying some Authorization header reaches  *)
(* one of the two extractors.                                              *)
(***************************************************************************)

\* how far the clock may jump between two events
ClockSteps == {1, DEFAULT_SESSION_LENGTH - 1}

\* the exp values a presented token may carry: around the current time, and
\* those of the tokens issued
ExpChoices == ({now - 1, now, now + 1} \cap Nat) \cup {i.token.claims.exp : i \in issued}

ClaimChoices == {AuthUserClaims(u, e) : u \in UserIds, e \in ExpChoices} \cup {BadClaims}

\* the signature segments a presented token may carry: the MAC of its own
\* header and claims under either key, that MAC with a bit flipped, and the
\* signature of an issued token
SigChoices(alg, claims) ==
    LET own == {HmacSign(k, alg, claims) : k \in Keys}
    IN  own \cup {FlipBit(s) : s \in own} \cup {i.token.sig : i \in issued}

TokenChoices ==
    {i.token : i \in issued} \cup
    UNION {UNION {{[kind |-> "jwt", alg |-> a, claims |-> c, sig |-> s] :
                       s \in SigChoices(a, c)} : c \in ClaimChoices} : a \in Algs}

HeaderChoices ==
    {NoHeader, NonUtf8Header}
        \cup {TextHeader(SCHEME_PREFIX, p) : p \in TokenChoices \cup {Garbage}}
        \cup {TextHeader("Bearer ", p) : p \in {i.token : i \in issued} \cup {Garbage}}

NoAuth == [extractor |-> "none"]

AuthInit ==
    /\ now = 0
    /\ ticks = 0
    /\ issued = {}
    /\ authReq = NoAuth
    /\ authRes = NoAuth

\* time passes between two requests
Tick ==
    /\ authReq = NoAuth
    /\ ticks < MaxTicks
    /\ \E d \in ClockSteps : now' = now + d
    /\ ticks' = ticks + 1
    /\ UNCHANGED <<issued, authReq, authRes, storeVars>>

\* a handler returns AuthUser { user_id }.to_jwt(&ctx)
IssueToken ==
    /\ authReq = NoAuth
    /\ Cardinality(issued) < MaxIssued
    /\ \E u \in UserIds :
          issued' = issued \cup
              {[token |-> to_jwt(u, ServerKey, now), user_id |-> u, at |-> now]}
    /\ UNCHANGED <<now, ticks, authReq, authRes, storeVars>>

\* a handler with an `AuthUser` parameter receives a request
RequireAuth ==
    /\ authReq = NoAuth
    /\ \E h \in HeaderChoices :
          /\ authReq' = [extractor |-> "AuthUser", header |-> h]
          /\ authRes' = AuthUser_from_request(ServerKey, now, h)
    /\ UNCHANGED <<now, ticks, issued, storeVars>>

\* a handler with a `MaybeAuthUser` parameter receives a request
OptionalAuth ==
    /\ authReq = NoAuth
    /\ \E h \in HeaderChoices :
          /\ authReq' = [extractor |-> "MaybeAuthUser", header |-> h]
          /\ authRes' = MaybeAuthUser_from_request(ServerKey, now, h)
    /\ UNCHANGED <<now, ticks, issued, storeVars>>

\* the request is answered
AuthRespond ==
    /\ authReq # NoAuth
    /\ authReq' = NoAuth
    /\ authRes' = NoAuth
    /\ UNCHANGED <<now, ticks, issued, storeVars>>

AuthNext == Tick \/ IssueToken \/ RequireAuth \/ OptionalAuth \/ AuthRespond

(***************************************************************************)
(* slugify: src/http/articles/mod.rs                                       *)
(***************************************************************************)

UpperLetters == {"A", "B", "C"}
LowerLetters == {"a", "b", "c"}
Digits == {"1", "2"}
QUOTE_CHARS == {"'", "\""}

\* char::is_alphanumeric
is_alphanumeric(c) == c \in UpperLetters \cup LowerLetters \cup Digits

\* u8::to_ascii_lowercase, as make_ascii_lowercase applies it to each character
to_ascii_lowercase(c) ==
    CASE c = "A" -> "a"
      [] c = "B" -> "b"
      [] c = "C" -> "c"
      [] OTHER -> c

\* the closure given to split: anything that isn't a word character or quotation mark
IsSeparator(c) == ~(c \in QUOTE_CHARS \/ is_alphanumeric(c))

\* str::split: the substrings between separators, empty ones included
split(string) ==
    LET RECURSIVE go(_, _, _)
        go(i, cur, acc) ==
            IF i > Len(string) THEN Append(acc, cur)
            ELSE IF IsSeparator(string[i]) THEN go(i + 1, <<>>, Append(acc, cur))
            ELSE go(i + 1, Append(cur, string[i]), acc)
    IN  go(1, <<>>, <<>>)

\* the closure given to map: remove quotes, then lowercase
SlugSegment(seg) ==
    LET unquoted == SelectSeq(seg, LAMBDA c : c \notin QUOTE_CHARS)
    IN  [i \in 1..Len(unquoted) |-> to_ascii_lowercase(unquoted[i])]

\* Itertools::join
join(segs, sep) ==
    LET RECURSIVE go(_)
        go(i) == IF i > Len(segs) THEN <<>>
                 ELSE IF i = 1 THEN segs[1] \o go(2)
                 ELSE <<sep>> \o segs[i] \o go(i + 1)
    IN  go(1)

slugify(string) ==
    LET nonEmpty == SelectSeq(split(string), LAMBDA seg : seg # <<>>)
    IN  join([i \in 1..Len(nonEmpty) |-> SlugSegment(nonEmpty[i])], "-")

(***************************************************************************)
(* The store: the tables the handlers read and write, the unique           *)
(* constraints their statements can violate, and the scoped transaction    *)
(* (sqlx::Transaction) with its row locks.                                 *)
(***************************************************************************)

\* the request tasks
Procs == {"p1", "p2"}

Usernames == {"alice", "bob"}
Emails == {"a@x", "b@x"}
Titles == {<<"A", " ", "b">>, <<"a", "-", "b">>, <<"C", "!">>}
Slugs == {slugify(t) : t \in Titles}
CommentIds == 1..MaxComments

EmptyDb ==
    [user |-> {}, article |-> {}, article_comment |-> {},
     follow |-> {}, article_favorite |-> {},
     user_seq |-> 0, article_seq |-> 0, comment_seq |-> 0]

NoTx == [open |-> FALSE]
\* ctx.db.begin(): a transaction that has written nothing yet
Begun == [open |-> TRUE, article |-> {}, follow_ins |-> {}, follow_del |-> {}]
Idle == [pc |-> "idle"]
\* a task that takes no request in this run
Off == [pc |-> "off"]

\* requests are handled one at a time, by the first task
OneTask == [p \in Procs |-> IF p = "p1" THEN Idle ELSE Off]

\* two tasks handle requests at the same time
TwoTasks == [p \in Procs |-> Idle]

\* what a statement sees inside task p's transaction: the committed rows with
\* the transaction's own pending article writes in place of the rows they
\* replace, its pending follow rows added and the follow rows it deleted removed
View(p) ==
    IF ~tx[p].open THEN db
    ELSE [db EXCEPT !.article =
            {r \in db.article : \A w \in tx[p].article : w.article_id # r.article_id}
                \cup tx[p].article,
                    !.follow = (@ \ tx[p].follow_del) \cup tx[p].follow_ins]

\* dropping a sqlx::Transaction that was not committed rolls it back: its
\* pending writes are discarded and its row locks released
LocksWithout(p) == {l \in rowLock : l[2] # p}

\* row locks that make nobody wait
LockedByOther_nobody(article_id, p) == FALSE

\* the rows of `table` a statement of task p must wait for
LockedByOther(article_id, p) == \E q \in Procs \ {p} : <<article_id, q>> \in rowLock

\* Error values (crate::http::Error) and a handler's Ok
NotFound == [kind |-> "NotFound"]
Forbidden == [kind |-> "Forbidden"]
Internal == [kind |-> "Internal"]
unprocessable_entity(field, message) ==
    [kind |-> "UnprocessableEntity", field |-> field, message |-> message]
Ok(body) == [kind |-> "Ok", body |-> body]

\* the error sqlx returns for a statement that violates a named constraint
DatabaseError(constraint) == [ok |-> FALSE, constraint |-> constraint]
Fetched(row) == [ok |-> TRUE, row |-> row]

\* ResultExt::on_constraint: a database error naming `name` becomes the mapped
\* error; anything else passes through
on_constraint(res, name, mapped) ==
    IF ~res.ok /\ ~("mapped" \in DOMAIN res) /\ res.constraint = name
    THEN [ok |-> FALSE, mapped |-> mapped]
    ELSE res

\* `?` on a Result<_, sqlx::Error> or Result<_, Error>: From<sqlx::Error> for
\* Error gives the opaque Error::Sqlx
ErrorOf(res) == IF "mapped" \in DOMAIN res THEN res.mapped ELSE Internal

\* an empty store
StoreInit ==
    /\ db = EmptyDb
    /\ tx = [p \in Procs |-> NoTx]
    /\ rowLock = {}
    /\ calls = OneTask

\* a task takes a request when it is idle; the other tasks go on with theirs
MayStart(p) == calls[p].pc = "idle"

\* coalesce($n, column)
coalesce(opt, old) == IF opt = None THEN old ELSE opt[1]

Done(op, caller, args, ret) ==
    [pc |-> "done", op |-> op, caller |-> caller, args |-> args, pre |-> db, ret |-> ret]

(***************************************************************************)
(* users: src/http/users.rs.  A user row keeps the two columns with a      *)
(* unique constraint; the token of the returned User is the subject of     *)
(* the token model above.                                                  *)
(***************************************************************************)

\* the unique constraints of "user" a row with these values, other than the
\* row of `self`, would violate
UserViolations(users, self, username, email) ==
    {c \in {"user_username_key", "user_email_key"} :
        \E r \in users :
            /\ r.user_id # self
            /\ \/ c = "user_username_key" /\ r.username = username
               \/ c = "user_email_key" /\ r.email = email}

\* only the first of the two on_constraint calls
UserConstraints_username_only(res) ==
    on_constraint(res, "user_username_key",
                  unprocessable_entity("username", "username taken"))

\* the two on_constraint calls of create_user and update_user
UserConstraints(res) ==
    on_constraint(
        on_constraint(res, "user_username_key",
                      unprocessable_entity("username", "username taken")),
        "user_email_key", unprocessable_entity("email", "email taken"))

UserBody(row) == [email |-> row.email, username |-> row.username]

create_user(p) ==
    /\ MayStart(p)
    /\ db.user_seq < MaxUsers
    /\ \E username \in Usernames, email \in Emails :
         LET user_id == db.user_seq + 1
             row == [user_id |-> user_id, username |-> username, email |-> email]
             violated == UserViolations(db.user, user_id, username, email)
             args == [username |-> username, email |-> email]
         IN  IF violated = {}
             THEN /\ db' = [db EXCEPT !.user = @ \cup {row}, !.user_seq = user_id]
                  /\ calls' = [calls EXCEPT ![p] =
                                 Done("create_user", None, args, Ok(UserBody(row)))]
             ELSE \E c \in violated :
                  /\ db' = db
                  /\ calls' = [calls EXCEPT ![p] =
                                 Done("create_user", None, args,
                                      ErrorOf(UserConstraints(DatabaseError(c))))]
    /\ UNCHANGED <<tx, rowLock, authVars>>

\* the passwords a request may carry
Passwords == {"pw1", "pw2"}

\* PasswordHash::generate(Argon2::default(), password, salt): the PHC string,
\* as an ideal hash that only the password it was made of verifies against
PasswordHash(password) == [phc |-> TRUE, of |-> password]

\* the values a request may give for a column: none, or one of `values` where
\* the user rows of the store carry the column
OptionalField(row, column, values) ==
    IF column \in DOMAIN row THEN {None} \cup {Some(v) : v \in values} ELSE {None}

\* an update that sets bio = coalesce($4, ''), blanking a bio not supplied
UpdatedUser_bio_blanked(row, set) ==
    [f \in DOMAIN row |-> IF f = "bio" THEN coalesce(set[f], "")
                          ELSE IF f \in DOMAIN set THEN coalesce(set[f], row[f])
                          ELSE row[f]]

\* update "user" set email = coalesce($1, "user".email), ... where user_id = $6:
\* the row the statement writes
UpdatedUser(row, set) ==
    [f \in DOMAIN row |-> IF f \in DOMAIN set THEN coalesce(set[f], row[f]) ELSE row[f]]

\* get_current_user, also the early return of update_user
CurrentUser(user_id) ==
    LET rows == {r \in db.user : r.user_id = user_id}
    IN  IF rows = {} THEN Internal ELSE Ok(UserBody(CHOOSE r \in rows : TRUE))

update_user(p) ==
    /\ MayStart(p)
    /\ \E me \in db.user :
       \E username \in {None} \cup {Some(u) : u \in Usernames},
          email \in {None} \cup {Some(e) : e \in Emails},
          password \in OptionalField(me, "password_hash", Passwords),
          bio \in OptionalField(me, "bio", {"bio2"}) :
         LET args == [username |-> username, email |-> email,
                      password |-> password, bio |-> bio]
             password_hash == IF password = None THEN None
                              ELSE Some(PasswordHash(password[1]))
             row == UpdatedUser(me, [email |-> email, username |-> username,
                                     password_hash |-> password_hash, bio |-> bio])
             violated == UserViolations(db.user, me.user_id, row.username, row.email)
         IN  IF args = [username |-> None, email |-> None,
                        password |-> None, bio |-> None]
             THEN /\ db' = db
                  /\ calls' = [calls EXCEPT ![p] =
                                 Done("update_user", me.user_id, args,
                                      CurrentUser(me.user_id))]
             ELSE IF violated = {}
             THEN /\ db' = [db EXCEPT !.user = (@ \ {me}) \cup {row}]
                  /\ calls' = [calls EXCEPT ![p] =
                                 Done("update_user", me.user_id, args, Ok(UserBody(row)))]
             ELSE \E c \in violated :
                  /\ db' = db
                  /\ calls' = [calls EXCEPT ![p] =
                                 Done("update_user", me.user_id, args,
                                      ErrorOf(UserConstraints(DatabaseError(c))))]
    /\ UNCHANGED <<tx, rowLock, authVars>>

(***************************************************************************)
(* articles: src/http/articles/mod.rs.  created_at and updated_at are      *)
(* left out: no handler writes them.                                       *)
(***************************************************************************)

TagLists == {<<2, 1>>}

\* Vec::sort
sort(list) ==
    LET RECURSIVE insert(_, _)
        insert(x, sorted) ==
            IF sorted = <<>> THEN <<x>>
            ELSE IF x <= Head(sorted) THEN <<x>> \o sorted
            ELSE <<Head(sorted)>> \o insert(x, Tail(sorted))
        RECURSIVE go(_)
        go(i) == IF i = 0 THEN <<>> ELSE insert(list[i], go(i - 1))
    IN  go(Len(list))

\* the columns `returning` gives back, as ArticleFromQuery::into_article
\* arranges them; `favorited` and `favorites_count` as the handler's query
\* computes them
ArticleBody(row, favorited, favorites_count, author, following) ==
    [slug |-> row.slug, title |-> row.title, description |-> row.description,
     body |-> row.body, tag_list |-> row.tag_list,
     favorited |-> favorited, favorites_count |-> favorites_count,
     author |-> [username |-> author.username, following |-> following]]

\* a unique index that holds the updated row's own former slug against it
SlugTaken_counting_self(articles, self, slug) == \E r \in articles : r.slug = slug

\* a row with this slug, other than the row `self`, violates article_slug_key
SlugTaken(articles, self, slug) ==
    \E r \in articles : r.article_id # self /\ r.slug = slug

\* the on_constraint call of create_article and update_article
SlugConstraint(res, slug) ==
    on_constraint(res, "article_slug_key",
                  unprocessable_entity("slug", <<"duplicate article slug: ", slug>>))

create_article(p) ==
    /\ MayStart(p)
    /\ db.article_seq < MaxArticles
    /\ \E author \in db.user, title \in Titles, description \in {"d1"},
          body \in {"b1"}, tags \in TagLists :
         LET slug == slugify(title)
             tag_list == sort(tags)
             article_id == db.article_seq + 1
             row == [article_id |-> article_id, user_id |-> author.user_id,
                     slug |-> slug, title |-> title, description |-> description,
                     body |-> body, tag_list |-> tag_list]
             args == [title |-> title, description |-> description, body |-> body,
                      tag_list |-> tags]
             res == IF SlugTaken(db.article, article_id, slug)
                    THEN DatabaseError("article_slug_key")
                    ELSE Fetched(ArticleBody(row, FALSE, 0, author, FALSE))
             mapped == SlugConstraint(res, slug)
         IN  /\ db' = IF res.ok
                      THEN [db EXCEPT !.article = @ \cup {row}, !.article_seq = article_id]
                      ELSE db
             /\ calls' = [calls EXCEPT ![p] =
                            Done("create_article", author.user_id, args,
                                 IF mapped.ok THEN Ok(mapped.row) ELSE ErrorOf(mapped))]
    /\ UNCHANGED <<tx, rowLock, authVars>>

\* a store failure that is none of the statement's own doing (the connection
\* is lost): sqlx returns an error and `?` makes it the opaque Error::Sqlx.
\* It is modelled at tx.commit(), where the transaction has a pending write to
\* lose; a failed COMMIT leaves the transaction aborted.
StoreFault == [kind |-> "Internal", fault |-> TRUE]

\* new_slug.unwrap() on None
Panic == [kind |-> "Panic"]

\* tx.commit(): the pending writes become the committed rows, the locks are released
Commit(p) ==
    /\ db' = View(p)
    /\ tx' = [tx EXCEPT ![p] = NoTx]
    /\ rowLock' = LocksWithout(p)

\* a transaction that commits what it holds when it goes out of scope
Rollback_commits(p) == Commit(p)

\* a sqlx::Transaction dropped without commit() is rolled back: its pending
\* writes are discarded and its row locks released
Rollback(p) ==
    /\ tx' = [tx EXCEPT ![p] = NoTx]
    /\ rowLock' = LocksWithout(p)
    /\ db' = db

\* update_article returns early: `tx` goes out of scope
Fail(p, ret) ==
    /\ Rollback(p)
    /\ calls' = [calls EXCEPT ![p] =
                   [pc |-> "done", op |-> @.op, caller |-> @.caller, args |-> @.args,
                    pre |-> @.pre, ret |-> ret]]

\* the handler's locals so far, and one more
With(locals, name, value) ==
    [k \in DOMAIN locals \cup {name} |-> IF k = name THEN value ELSE locals[k]]

OptionOf(S) == {None} \cup {Some(x) : x \in S}

\* let mut tx = ctx.db.begin().await?; let new_slug = ...; and the first
\* statement: select article_id, user_id from article where slug = $1 for update.
\* The statement waits while another task's transaction holds the row's lock.
update_article_select(p) ==
    /\ MayStart(p)
    /\ \E caller \in db.user, slug \in Slugs, title \in OptionOf(Titles),
          description \in OptionOf({"d2"}), body \in OptionOf({"b2"}) :
         LET begun == [op |-> "update_article", caller |-> caller.user_id,
                       args |-> [slug |-> slug, title |-> title,
                                 description |-> description, body |-> body],
                       pre |-> db,
                       new_slug |-> IF title = None THEN None
                                    ELSE Some(slugify(title[1]))]
             rows == {r \in db.article : r.slug = slug}
         IN  \/ /\ rows = {}
                /\ calls' = [calls EXCEPT ![p] =
                               Done(begun.op, begun.caller, begun.args, NotFound)]
                /\ UNCHANGED <<db, tx, rowLock>>
             \/ \E r \in rows :
                  /\ ~LockedByOther(r.article_id, p)
                  /\ tx' = [tx EXCEPT ![p] = Begun]
                  /\ rowLock' = rowLock \cup {<<r.article_id, p>>}
                  /\ calls' = [calls EXCEPT ![p] =
                                 With(With(begun, "pc", "selected"), "article_meta",
                                      [article_id |-> r.article_id,
                                       user_id |-> r.user_id])]
                  /\ UNCHANGED db
    /\ UNCHANGED authVars

\* the request arrives: let mut tx = ctx.db.begin().await?; let new_slug = ...
update_article_begin(p) ==
    /\ MayStart(p)
    /\ \E caller \in db.user, slug \in Slugs, title \in OptionOf(Titles),
          description \in OptionOf({"d2"}), body \in OptionOf({"b2"}) :
         calls' = [calls EXCEPT ![p] =
                     [pc |-> "begun", op |-> "update_article", caller |-> caller.user_id,
                      args |-> [slug |-> slug, title |-> title,
                                description |-> description, body |-> body],
                      pre |-> db,
                      new_slug |-> IF title = None THEN None
                                   ELSE Some(slugify(title[1]))]]
    /\ tx' = [tx EXCEPT ![p] = Begun]
    /\ UNCHANGED <<db, rowLock, authVars>>

\* the same select without `for update`: the row is read and no lock is taken
Locked_without_for_update(p, row, waited) ==
    /\ calls' = [calls EXCEPT ![p] =
                   With(With([@ EXCEPT !.pc = "selected"], "article_meta",
                             [article_id |-> row.article_id, user_id |-> row.user_id]),
                        "waited", waited)]
    /\ UNCHANGED <<db, tx, rowLock>>

\* the task holds the row's lock and has read article_id and user_id
Locked(p, row, waited) ==
    /\ rowLock' = rowLock \cup {<<row.article_id, p>>}
    /\ calls' = [calls EXCEPT ![p] =
                   With(With([@ EXCEPT !.pc = "selected"], "article_meta",
                             [article_id |-> row.article_id, user_id |-> row.user_id]),
                        "waited", waited)]
    /\ UNCHANGED <<db, tx>>

\* select article_id, user_id from article where slug = $1 for update, when
\* other requests are in flight: the statement finds the committed row with the
\* slug and, if another transaction holds its lock, waits for that transaction
update_article_lock(p) ==
    /\ calls[p].pc = "begun"
    /\ LET rows == {r \in db.article : r.slug = calls[p].args.slug}
       IN  IF rows = {} THEN Fail(p, NotFound)
           ELSE \E r \in rows :
                  IF LockedByOther(r.article_id, p)
                  THEN /\ calls' = [calls EXCEPT ![p] =
                                      With([@ EXCEPT !.pc = "waiting"], "candidate",
                                           r.article_id)]
                       /\ UNCHANGED <<db, tx, rowLock>>
                  ELSE Locked(p, r, FALSE)
    /\ UNCHANGED authVars

\* the lock is free again: the statement looks at the row as it is now
\* committed and takes it only if it still has the slug
update_article_wake(p) ==
    /\ calls[p].pc = "waiting"
    /\ ~LockedByOther(calls[p].candidate, p)
    /\ LET rows == {r \in db.article : /\ r.article_id = calls[p].candidate
                                       /\ r.slug = calls[p].args.slug}
       IN  IF rows = {} THEN Fail(p, NotFound)
           ELSE \E r \in rows : Locked(p, r, TRUE)
    /\ UNCHANGED authVars

\* an ownership check that lets every caller through
IsOwner_anyone(article_meta, user_id) == TRUE

\* article_meta.user_id != auth_user.user_id, negated
IsOwner(article_meta, user_id) == article_meta.user_id = user_id

\* if article_meta.user_id != auth_user.user_id { return Err(Error::Forbidden); }
update_article_check(p) ==
    /\ calls[p].pc = "selected"
    /\ IF ~IsOwner(calls[p].article_meta, calls[p].caller)
       THEN Fail(p, Forbidden)
       ELSE /\ calls' = [calls EXCEPT ![p].pc = "authorized"]
            /\ UNCHANGED <<db, tx, rowLock>>
    /\ UNCHANGED authVars

\* the bind parameters $3 and $4 taken one for the other
UpdatedRow_swapped(row, new_slug, args) ==
    [row EXCEPT !.slug = coalesce(new_slug, @),
                !.title = coalesce(args.title, @),
                !.description = coalesce(args.body, @),
                !.body = coalesce(args.description, @)]

\* the row `update article set ... where article_id = $5` writes
UpdatedRow(row, new_slug, args) ==
    [row EXCEPT !.slug = coalesce(new_slug, @),
                !.title = coalesce(args.title, @),
                !.description = coalesce(args.description, @),
                !.body = coalesce(args.body, @)]

\* exists(select 1 from article_favorite where user_id = $6)
UpdateFavorited(store, user_id) == \E f \in store.article_favorite : f.user_id = user_id

\* select count(*) from article_favorite fav where fav.article_id = $5
FavoritesCount(store, article_id) ==
    Cardinality({f \in store.article_favorite : f.article_id = article_id})

\* the closure given to on_constraint in update_article
UpdateSlugConstraint(res, new_slug) ==
    IF ~res.ok /\ res.constraint = "article_slug_key" /\ new_slug = None
    THEN [ok |-> FALSE, mapped |-> Panic]
    ELSE SlugConstraint(res, IF new_slug = None THEN None ELSE new_slug[1])

\* another task's open transaction has written an article that has, or had,
\* this slug: a statement that needs the slug waits for that transaction to end
SlugKeyBusy(p, article_id, slug) ==
    \E q \in Procs \ {p} :
        /\ tx[q].open
        /\ \E w \in tx[q].article :
              /\ w.article_id # article_id
              /\ \/ w.slug = slug
                 \/ \E r \in db.article : r.article_id = w.article_id /\ r.slug = slug

\* with updated_article as (update article ... returning ...) select ...
update_article_write(p) ==
    /\ calls[p].pc = "authorized"
    /\ LET c == calls[p]
           view == View(p)
           rows == {r \in view.article : r.article_id = c.article_meta.article_id}
           authors == {u \in view.user : u.user_id = c.caller}
       IN  \/ /\ rows = {} \/ authors = {}
              /\ Fail(p, Internal)
           \/ \E row \in rows, author \in authors :
                LET new == UpdatedRow(row, c.new_slug, c.args)
                    res == IF SlugTaken(view.article, new.article_id, new.slug)
                           THEN DatabaseError("article_slug_key")
                           ELSE Fetched(ArticleBody(new,
                                    UpdateFavorited(view, c.caller),
                                    FavoritesCount(view, new.article_id),
                                    author, FALSE))
                    mapped == UpdateSlugConstraint(res, c.new_slug)
                IN  /\ new.slug # row.slug => ~SlugKeyBusy(p, new.article_id, new.slug)
                    /\ IF mapped.ok
                       THEN /\ tx' = [tx EXCEPT ![p].article = {new}]
                            /\ calls' = [calls EXCEPT ![p] =
                                           With([@ EXCEPT !.pc = "written"], "article",
                                                mapped.row)]
                            /\ UNCHANGED <<db, rowLock>>
                       ELSE Fail(p, ErrorOf(mapped))
    /\ UNCHANGED authVars

\* tx.commit().await?; Ok(Json(ArticleBody { article }))
update_article_commit(p) ==
    /\ calls[p].pc = "written"
    /\ \/ Fail(p, StoreFault)
       \/ /\ Commit(p)
          /\ calls' = [calls EXCEPT ![p] =
                         [pc |-> "done", op |-> @.op, caller |-> @.caller,
                          args |-> @.args, pre |-> @.pre, ret |-> Ok(@.article)]]
    /\ UNCHANGED authVars

\* the two flags read the wrong way round
DeleteOutcome_swapped(deleted, existed) ==
    IF deleted THEN Ok(None) ELSE IF existed THEN NotFound ELSE Forbidden

\* if result.deleted { Ok(()) } else if result.existed { Err(Error::Forbidden) }
\* else { Err(Error::NotFound) }
DeleteOutcome(deleted, existed) ==
    IF deleted THEN Ok(None) ELSE IF existed THEN Forbidden ELSE NotFound

\* the store removes the comments and favorites of a deleted article with it
Cascade(store, gone) ==
    [store EXCEPT
        !.article_comment = {c \in @ : c.article_id \notin gone},
        !.article_favorite = {f \in @ : f.article_id \notin gone}]

delete_article(p) ==
    /\ MayStart(p)
    /\ \E caller \in db.user, slug \in Slugs :
         LET deleted_article ==
                 {r \in db.article : r.slug = slug /\ r.user_id = caller.user_id}
             existed == \E r \in db.article : r.slug = slug
             deleted == deleted_article # {}
             gone == {r.article_id : r \in deleted_article}
         IN  /\ \A id \in gone : ~LockedByOther(id, p)
             /\ db' = Cascade([db EXCEPT !.article = @ \ deleted_article], gone)
             /\ calls' = [calls EXCEPT ![p] =
                            Done("delete_article", caller.user_id, [slug |-> slug],
                                 DeleteOutcome(deleted, existed))]
    /\ UNCHANGED <<tx, rowLock, authVars>>

(***************************************************************************)
(* comments: src/http/articles/comments.rs                                 *)
(***************************************************************************)

CommentBody(row, author) ==
    [id |-> row.comment_id, body |-> row.body,
     author |-> [username |-> author.username, following |-> FALSE]]

\* a comment recorded under the owner of the article it is on
InsertedComment_by_article_owner(comment_id, article, user_id, body) ==
    [comment_id |-> comment_id, article_id |-> article.article_id,
     user_id |-> article.user_id, body |-> body]

\* insert into article_comment(article_id, user_id, body)
\* select article_id, $1, $2 from article where slug = $3
InsertedComment(comment_id, article, user_id, body) ==
    [comment_id |-> comment_id, article_id |-> article.article_id,
     user_id |-> user_id, body |-> body]

add_comment(p) ==
    /\ MayStart(p)
    /\ db.comment_seq < MaxComments
    /\ \E caller \in db.user, slug \in Slugs, body \in {"c1"} :
         LET comment_id == db.comment_seq + 1
             inserted_comment ==
                 {InsertedComment(comment_id, a, caller.user_id, body) :
                      a \in {r \in db.article : r.slug = slug}}
         IN  /\ db' = IF inserted_comment = {} THEN db
                      ELSE [db EXCEPT !.article_comment = @ \cup inserted_comment,
                                      !.comment_seq = comment_id]
             /\ calls' = [calls EXCEPT ![p] =
                            Done("add_comment", caller.user_id,
                                 [slug |-> slug, body |-> body],
                                 IF inserted_comment = {} THEN NotFound
                                 ELSE Ok(CommentBody(CHOOSE c \in inserted_comment : TRUE,
                                                     caller)))]
    /\ UNCHANGED <<tx, rowLock, authVars>>

delete_comment(p) ==
    /\ MayStart(p)
    /\ \E caller \in db.user, slug \in Slugs, comment_id \in CommentIds :
         LET under_slug == {r.article_id : r \in {a \in db.article : a.slug = slug}}
             deleted_comment ==
                 {c \in db.article_comment :
                     /\ c.comment_id = comment_id
                     /\ c.article_id \in under_slug
                     /\ c.user_id = caller.user_id}
             existed == \E c \in db.article_comment :
                           c.comment_id = comment_id /\ c.article_id \in under_slug
             deleted == deleted_comment # {}
         IN  /\ db' = [db EXCEPT !.article_comment = @ \ deleted_comment]
             /\ calls' = [calls EXCEPT ![p] =
                            Done("delete_comment", caller.user_id,
                                 [slug |-> slug, comment_id |-> comment_id],
                                 DeleteOutcome(deleted, existed))]
    /\ UNCHANGED <<tx, rowLock, authVars>>

(***************************************************************************)
(* RelationshipToggle: follow_user and unfollow_user of                    *)
(* src/http/profiles.rs, favorite_article and unfavorite_article of        *)
(* src/http/articles/mod.rs.  A table is a bag of rows: `copy` tells apart *)
(* two rows whose columns are equal, so that a second row for the same     *)
(* pair is a state the model can be in.                                    *)
(***************************************************************************)

\* Path(username): the registered names and one nobody has
ProfileNames == Usernames \cup {"nobody"}

\* Profile { username, following }
Profile(user, following) == [username |-> user.username, following |-> following]

SameEdge(r, following, followed) ==
    r.following_user_id = following /\ r.followed_user_id = followed

\* the check constraint of table follow that the handler names
user_cannot_follow_self(following, followed) == following # followed

\* an insert that is not stopped by a row with the same key
InsertFollow_no_conflict_target(table, following, followed) ==
    IF ~user_cannot_follow_self(following, followed)
    THEN DatabaseError("user_cannot_follow_self")
    ELSE Fetched({[following_user_id |-> following, followed_user_id |-> followed,
                   copy |-> 1 + Cardinality({r \in table :
                                               SameEdge(r, following, followed)})]})

\* insert into follow(following_user_id, followed_user_id) values ($1, $2)
\* on conflict do nothing: the rows the statement adds to `table`
InsertFollow(table, following, followed) ==
    IF ~user_cannot_follow_self(following, followed)
    THEN DatabaseError("user_cannot_follow_self")
    ELSE IF \E r \in table : SameEdge(r, following, followed)
    THEN Fetched({})
    ELSE Fetched({[following_user_id |-> following, followed_user_id |-> followed,
                   copy |-> 1]})

\* a check-constraint violation that reaches the caller unmapped
FollowConstraint_unmapped(res) == res

\* .on_constraint("user_cannot_follow_self", |_| Error::Forbidden)
FollowConstraint(res) == on_constraint(res, "user_cannot_follow_self", Forbidden)

\* another task's open transaction has written, or deleted, a follow row with
\* this key: a statement that needs the key waits for that transaction to end
FollowKeyBusy(p, following, followed) ==
    \E q \in Procs \ {p} :
        /\ tx[q].open
        /\ \E r \in tx[q].follow_ins \cup tx[q].follow_del :
              SameEdge(r, following, followed)

\* let mut tx = ctx.db.begin().await?;
BeginProfileTx(p, op) ==
    /\ MayStart(p)
    /\ \E caller \in db.user, username \in ProfileNames :
         calls' = [calls EXCEPT ![p] =
                     [pc |-> "profile_begun", op |-> op, caller |-> caller.user_id,
                      args |-> [username |-> username], pre |-> db]]
    /\ tx' = [tx EXCEPT ![p] = Begun]
    /\ UNCHANGED <<db, rowLock, authVars>>

\* select user_id, username, bio, image from "user" where username = $1,
\* and .ok_or(Error::NotFound)?
SelectProfile(p, op) ==
    /\ calls[p].pc = "profile_begun"
    /\ calls[p].op = op
    /\ LET rows == {u \in View(p).user : u.username = calls[p].args.username}
       IN  IF rows = {} THEN Fail(p, NotFound)
           ELSE /\ \E user \in rows :
                     calls' = [calls EXCEPT ![p] =
                                 With([@ EXCEPT !.pc = "profile_found"], "user", user)]
                /\ UNCHANGED <<db, tx, rowLock>>
    /\ UNCHANGED authVars

\* tx.commit().await?; Ok(Json(ProfileBody { profile }))
CommitProfile(p, op, following) ==
    /\ calls[p].pc = "profile_written"
    /\ calls[p].op = op
    /\ \/ Fail(p, StoreFault)
       \/ /\ Commit(p)
          /\ calls' = [calls EXCEPT ![p] =
                         [pc |-> "done", op |-> @.op, caller |-> @.caller,
                          args |-> @.args, pre |-> @.pre,
                          ret |-> Ok(Profile(@.user, following))]]
    /\ UNCHANGED authVars

follow_user_begin(p) == BeginProfileTx(p, "follow_user")

\* a handler that compares the target with the caller itself, before it writes
follow_user_select_refusing_self(p) ==
    /\ calls[p].pc = "profile_begun"
    /\ calls[p].op = "follow_user"
    /\ IF \E u \in View(p).user : /\ u.username = calls[p].args.username
                                  /\ u.user_id = calls[p].caller
       THEN Fail(p, Forbidden) /\ UNCHANGED authVars
       ELSE SelectProfile(p, "follow_user")

follow_user_select(p) == SelectProfile(p, "follow_user")

\* the insert, and `?` on its mapped result
follow_user_insert(p) ==
    /\ calls[p].pc = "profile_found"
    /\ calls[p].op = "follow_user"
    /\ LET c == calls[p]
           res == InsertFollow(View(p).follow, c.caller, c.user.user_id)
           mapped == FollowConstraint(res)
       IN  IF mapped.ok
           THEN /\ ~FollowKeyBusy(p, c.caller, c.user.user_id)
                /\ tx' = [tx EXCEPT ![p].follow_ins = @ \cup res.row]
                /\ calls' = [calls EXCEPT ![p].pc = "profile_written"]
                /\ UNCHANGED <<db, rowLock>>
           ELSE Fail(p, ErrorOf(mapped))
    /\ UNCHANGED authVars

follow_user_commit(p) == CommitProfile(p, "follow_user", TRUE)

unfollow_user_begin(p) == BeginProfileTx(p, "unfollow_user")

unfollow_user_select(p) == SelectProfile(p, "unfollow_user")

\* a delete without its where clause
DeletedFollow_all(table, following, followed) == table

\* the rows of `table` that `where following_user_id = $1 and
\* followed_user_id = $2` selects
DeletedFollow(table, following, followed) ==
    {r \in table : SameEdge(r, following, followed)}

\* delete from follow where following_user_id = $1 and followed_user_id = $2
unfollow_user_delete(p) ==
    /\ calls[p].pc = "profile_found"
    /\ calls[p].op = "unfollow_user"
    /\ LET c == calls[p]
           rows == DeletedFollow(View(p).follow, c.caller, c.user.user_id)
       IN  /\ \A q \in Procs \ {p} : tx[q].open => rows \cap tx[q].follow_del = {}
           /\ tx' = [tx EXCEPT ![p].follow_del = @ \cup rows]
    /\ calls' = [calls EXCEPT ![p].pc = "profile_written"]
    /\ UNCHANGED <<db, rowLock, authVars>>

unfollow_user_commit(p) == CommitProfile(p, "unfollow_user", FALSE)

\* an insert that is not stopped by a row with the same key
InsertFavorite_no_conflict_target(table, article_ids, user_id) ==
    {[article_id |-> id, user_id |-> user_id,
      copy |-> 1 + Cardinality({f \in table : f.article_id = id /\ f.user_id = user_id})] :
        id \in article_ids}

\* insert into article_favorite(article_id, user_id) select article_id, $2
\* from selected_article on conflict do nothing: the rows the statement adds
InsertFavorite(table, article_ids, user_id) ==
    {[article_id |-> id, user_id |-> user_id, copy |-> 1] :
        id \in {i \in article_ids :
                  ~\E f \in table : f.article_id = i /\ f.user_id = user_id}}

\* the first statement of favorite_article, executed on the pool: it is its
\* own transaction.  A new row refers to its article, and the store makes the
\* insert wait while another transaction holds that article's row lock.
favorite_article(p) ==
    /\ MayStart(p)
    /\ \E caller \in db.user, slug \in Slugs :
         LET selected_article == {r.article_id : r \in {a \in db.article : a.slug = slug}}
             inserted_favorite ==
                 InsertFavorite(db.article_favorite, selected_article, caller.user_id)
             call == [op |-> "favorite_article", caller |-> caller.user_id,
                      args |-> [slug |-> slug], pre |-> db]
         IN  /\ \A f \in inserted_favorite : ~LockedByOther(f.article_id, p)
             /\ db' = [db EXCEPT !.article_favorite = @ \cup inserted_favorite]
             /\ IF selected_article = {}
                THEN calls' = [calls EXCEPT ![p] =
                                 With(With(call, "pc", "done"), "ret", NotFound)]
                ELSE \E article_id \in selected_article :
                        calls' = [calls EXCEPT ![p] =
                                    With(With(call, "pc", "toggled"),
                                         "article_id", article_id)]
    /\ UNCHANGED <<tx, rowLock, authVars>>

\* the first statement of unfavorite_article: delete from article_favorite
\* where article_id = (select article_id from selected_article) and user_id = $2
unfavorite_article(p) ==
    /\ MayStart(p)
    /\ \E caller \in db.user, slug \in Slugs :
         LET selected_article == {r.article_id : r \in {a \in db.article : a.slug = slug}}
             deleted_favorite ==
                 {f \in db.article_favorite :
                     f.article_id \in selected_article /\ f.user_id = caller.user_id}
             call == [op |-> "unfavorite_article", caller |-> caller.user_id,
                      args |-> [slug |-> slug], pre |-> db]
         IN  /\ db' = [db EXCEPT !.article_favorite = @ \ deleted_favorite]
             /\ IF selected_article = {}
                THEN calls' = [calls EXCEPT ![p] =
                                 With(With(call, "pc", "done"), "ret", NotFound)]
                ELSE \E article_id \in selected_article :
                        calls' = [calls EXCEPT ![p] =
                                    With(With(call, "pc", "toggled"),
                                         "article_id", article_id)]
    /\ UNCHANGED <<tx, rowLock, authVars>>

\* exists(select 1 from follow where followed_user_id = author.user_id and
\* following_user_id = $1)
FollowingAuthor(store, user_id, author_id) ==
    \E r \in store.follow : SameEdge(r, user_id, author_id)

\* article_by_id(&ctx.db, auth_user.user_id, article_id), the second statement
\* of favorite_article and unfavorite_article
article_by_id(p) ==
    /\ calls[p].pc = "toggled"
    /\ LET c == calls[p]
           found == {<<a, u>> \in db.article \X db.user :
                        a.article_id = c.article_id /\ u.user_id = a.user_id}
           ret == IF found = {} THEN NotFound
                  ELSE LET au == CHOOSE x \in found : TRUE
                       IN  Ok(ArticleBody(au[1], UpdateFavorited(db, c.caller),
                                          FavoritesCount(db, c.article_id), au[2],
                                          FollowingAuthor(db, c.caller, au[1].user_id)))
       IN  calls' = [calls EXCEPT ![p] =
                       [pc |-> "done", op |-> c.op, caller |-> c.caller,
                        args |-> c.args, pre |-> c.pre, ret |-> ret]]
    /\ UNCHANGED <<db, tx, rowLock, authVars>>

\* the handler's result has been sent
\* the handlers whose statement has on_constraint calls after it
Sites == {"create_user", "update_user", "create_article", "update_article", "follow_user"}

\* the constraints the handlers name, and one that no handler names
ConstraintNames ==
    {"user_username_key", "user_email_key", "article_slug_key",
     "user_cannot_follow_self", "article_comment_article_id_fkey"}

\* the on_constraint calls that follow the statement of handler `site`
SiteConstraints(site, res, slug) ==
    CASE site \in {"create_user", "update_user"} -> UserConstraints(res)
      [] site = "create_article" -> SlugConstraint(res, slug)
      [] site = "update_article" -> UpdateSlugConstraint(res, Some(slug))
      [] site = "follow_user" -> FollowConstraint(res)

\* the statement of a handler fails on a named constraint, and `?` returns
\* what the handler's on_constraint calls make of the error
StatementFails(p) ==
    /\ MayStart(p)
    /\ \E site \in Sites, name \in ConstraintNames, caller \in db.user, title \in Titles :
         calls' = [calls EXCEPT ![p] =
                     Done(site, caller.user_id,
                          [constraint |-> name, title |-> title],
                          ErrorOf(SiteConstraints(site, DatabaseError(name),
                                                  slugify(title))))]
    /\ UNCHANGED <<db, tx, rowLock, authVars>>

(***************************************************************************)
(* login_user: src/http/users.rs.  The rows it reads carry password_hash,  *)
(* the column create_user fills with hash_password(req.user.password).     *)
(***************************************************************************)

\* Err(Error::Unauthorized) of a handler
Error_Unauthorized == [kind |-> "Unauthorized"]

\* a verification that every password passes
verify_password_any(password, password_hash) == [ok |-> TRUE]

\* verify_password: an unparsable hash and any argon2 error but a wrong
\* password are anyhow errors; a wrong password is Error::Unauthorized
verify_password(password, password_hash) ==
    IF ~password_hash.phc THEN [ok |-> FALSE, mapped |-> Internal]
    ELSE IF password_hash.of # password THEN [ok |-> FALSE, mapped |-> Error_Unauthorized]
    ELSE [ok |-> TRUE]

\* the User of a login response: the row's fields and a fresh token
LoginBody(row, t) ==
    [email |-> row.email, username |-> row.username,
     token |-> to_jwt(row.user_id, ServerKey, t)]

login_user(p) ==
    /\ MayStart(p)
    /\ \E email \in Emails \cup {"c@x"}, password \in Passwords :
         LET rows == {u \in db.user : u.email = email}
             args == [email |-> email, password |-> password]
         IN  IF rows = {}
             THEN calls' = [calls EXCEPT ![p] =
                              Done("login_user", None, args,
                                   unprocessable_entity("email", "does not exist"))]
             ELSE \E user \in rows :
                    LET verified == verify_password(password, user.password_hash)
                    IN  calls' = [calls EXCEPT ![p] =
                                    Done("login_user", None, args,
                                         IF verified.ok THEN Ok(LoginBody(user, now))
                                         ELSE ErrorOf(verified))]
    /\ UNCHANGED <<db, tx, rowLock, authVars>>

(***************************************************************************)
(* hash_password and verify_password hand their closure to                 *)
(* tokio::task::spawn_blocking and await its JoinHandle.  A request task   *)
(* is polled by one of the runtime's worker threads; the closure runs on a *)
(* thread of the blocking pool.                                            *)
(***************************************************************************)

\* the closure run where it is called, on the thread that polls the request
spawn_inline == "worker"

\* tokio::task::spawn_blocking: the pool whose thread runs the closure
spawn_blocking == "blocking"

\* the threads of `pool` that are running a hash job
Held(pool) ==
    Cardinality({q \in Procs : calls[q].pc = "hash_running" /\ calls[q].on = pool})

\* a worker thread is free to poll a request task
WorkerFree == Held("worker") < WorkerThreads

\* create_user: hash_password(req.user.password).await, up to spawn_blocking
hash_password_spawn(p) ==
    /\ MayStart(p)
    /\ WorkerFree
    /\ db.user_seq < MaxUsers
    /\ \E username \in Usernames, email \in Emails, password \in Passwords :
         calls' = [calls EXCEPT ![p] =
                     [pc |-> "hash_queued", op |-> "create_user", caller |-> None,
                      args |-> [username |-> username, email |-> email,
                                password |-> password],
                      pre |-> db, on |-> spawn_blocking]]
    /\ UNCHANGED <<db, tx, rowLock, authVars>>

\* login_user: the select, and verify_password(..).await up to spawn_blocking
verify_password_spawn(p) ==
    /\ MayStart(p)
    /\ WorkerFree
    /\ \E user \in db.user, password \in Passwords :
         calls' = [calls EXCEPT ![p] =
                     [pc |-> "hash_queued", op |-> "login_user", caller |-> None,
                      args |-> [email |-> user.email, password |-> password],
                      pre |-> db, on |-> spawn_blocking, user |-> user]]
    /\ UNCHANGED <<db, tx, rowLock, authVars>>

\* a thread of the pool takes the job
JobStarts(p) ==
    /\ calls[p].pc = "hash_queued"
    /\ Held(calls[p].on) < (IF calls[p].on = "blocking" THEN MaxBlockingThreads
                            ELSE WorkerThreads)
    /\ calls' = [calls EXCEPT ![p].pc = "hash_running"]
    /\ UNCHANGED <<db, tx, rowLock, authVars>>

\* the closure returns: the JoinHandle has the result
JobReturns(p) ==
    /\ calls[p].pc = "hash_running"
    /\ calls' = [calls EXCEPT ![p].pc = "hash_ready"]
    /\ UNCHANGED <<db, tx, rowLock, authVars>>

\* create_user goes on after hash_password: the insert and the response
create_user_insert(p) ==
    /\ calls[p].pc = "hash_ready"
    /\ calls[p].op = "create_user"
    /\ WorkerFree
    /\ LET a == calls[p].args
           user_id == db.user_seq + 1
           row == [user_id |-> user_id, username |-> a.username, email |-> a.email,
                   password_hash |-> PasswordHash(a.password)]
           violated == UserViolations(db.user, user_id, a.username, a.email)
       IN  IF violated = {}
           THEN /\ db' = [db EXCEPT !.user = @ \cup {row}, !.user_seq = user_id]
                /\ calls' = [calls EXCEPT ![p] =
                               [pc |-> "done", op |-> @.op, caller |-> @.caller,
                                args |-> @.args, pre |-> @.pre,
                                ret |-> Ok(UserBody(row))]]
           ELSE \E c \in violated :
                /\ db' = db
                /\ calls' = [calls EXCEPT ![p] =
                               [pc |-> "done", op |-> @.op, caller |-> @.caller,
                                args |-> @.args, pre |-> @.pre,
                                ret |-> ErrorOf(UserConstraints(DatabaseError(c)))]]
    /\ UNCHANGED <<tx, rowLock, authVars>>

\* login_user goes on after verify_password: the error or the response
login_user_verified(p) ==
    /\ calls[p].pc = "hash_ready"
    /\ calls[p].op = "login_user"
    /\ WorkerFree
    /\ LET verified == verify_password(calls[p].args.password,
                                       calls[p].user.password_hash)
       IN  calls' = [calls EXCEPT ![p] =
                       [pc |-> "done", op |-> @.op, caller |-> @.caller,
                        args |-> @.args, pre |-> @.pre,
                        ret |-> IF verified.ok THEN Ok(LoginBody(@.user, now))
                                ELSE ErrorOf(verified)]]
    /\ UNCHANGED <<db, tx, rowLock, authVars>>

\* a step of a follow_user request, polled by a worker thread
follow_user_step(p) ==
    \/ follow_user_select(p)
    \/ follow_user_insert(p)
    \/ follow_user_commit(p)

FollowPolled(p) ==
    /\ WorkerFree
    /\ \/ follow_user_begin(p)
       \/ follow_user_step(p)

\* the request's future was dropped at the await point `at`: no response is sent
Cancelled(at) == [kind |-> "Cancelled", at |-> at]

\* the points of a handler at which its transaction is open and not committed
Uncommitted ==
    {"begun", "waiting", "selected", "authorized", "written",
     "profile_begun", "profile_found", "profile_written"}

\* the handler's future is dropped while its transaction is open: `tx` is
\* dropped with it
Cancel(p) ==
    /\ calls[p].pc \in Uncommitted
    /\ Fail(p, Cancelled(calls[p].pc))
    /\ UNCHANGED authVars

Return(p) ==
    /\ calls[p].pc = "done"
    /\ calls' = [calls EXCEPT ![p] = Idle]
    /\ UNCHANGED <<db, tx, rowLock, authVars>>

Init == AuthInit /\ StoreInit

\* two registered users, no article yet
Registered ==
    [EmptyDb EXCEPT !.user = {[user_id |-> 1, username |-> "alice", email |-> "a@x"],
                              [user_id |-> 2, username |-> "bob", email |-> "b@x"]},
                    !.user_seq = 2]

ArticlesInit ==
    /\ AuthInit
    /\ db = Registered
    /\ tx = [p \in Procs |-> NoTx]
    /\ rowLock = {}
    /\ calls = OneTask

UniqueNext ==
    \E p \in Procs :
        \/ create_user(p)
        \/ update_user(p)
        \/ create_article(p)
        \/ update_article_select(p)
        \/ update_article_check(p)
        \/ update_article_write(p)
        \/ update_article_commit(p)
        \/ Return(p)

SpecUnique == Init /\ [][UniqueNext]_vars

Next ==
    \E p \in Procs :
        \/ create_article(p)
        \/ update_article_select(p)
        \/ update_article_check(p)
        \/ update_article_write(p)
        \/ update_article_commit(p)
        \/ delete_article(p)
        \/ add_comment(p)
        \/ delete_comment(p)
        \/ Return(p)

Spec == ArticlesInit /\ [][Next]_vars

SpecAuth == Init /\ [][AuthNext]_vars

\* two registered users and an article of the first, its slug slugify("A b")
Published ==
    [Registered EXCEPT
        !.article = {[article_id |-> 1, user_id |-> 1, slug |-> slugify(<<"A", " ", "b">>),
                      title |-> <<"A", " ", "b">>, description |-> "d1", body |-> "b1",
                      tag_list |-> sort(<<2, 1>>)]},
        !.article_seq = 1]

RelInit ==
    /\ AuthInit
    /\ db = Published
    /\ tx = [p \in Procs |-> NoTx]
    /\ rowLock = {}
    /\ calls = OneTask

RelNext ==
    \E p \in Procs :
        \/ follow_user_begin(p)
        \/ follow_user_select(p)
        \/ follow_user_insert(p)
        \/ follow_user_commit(p)
        \/ unfollow_user_begin(p)
        \/ unfollow_user_select(p)
        \/ unfollow_user_delete(p)
        \/ unfollow_user_commit(p)
        \/ favorite_article(p)
        \/ unfavorite_article(p)
        \/ article_by_id(p)
        \/ Return(p)

\* the relationship handlers, one request at a time
SpecRel == RelInit /\ [][RelNext]_vars

\* the stores SpecRel reaches: Published with any of the follow rows between
\* two different users and any of the favorite rows
EdgeStores ==
    LET follows == {[following_user_id |-> a.user_id, followed_user_id |-> b.user_id,
                     copy |-> 1] :
                        <<a, b>> \in {x \in Published.user \X Published.user :
                                        x[1] # x[2]}}
        favorites == {[article_id |-> a.article_id, user_id |-> u.user_id, copy |-> 1] :
                        a \in Published.article, u \in Published.user}
    IN  {[Published EXCEPT !.follow = F, !.article_favorite = V] :
            F \in SUBSET follows, V \in SUBSET favorites}

RelConcInit ==
    /\ AuthInit
    /\ db \in EdgeStores
    /\ tx = [p \in Procs |-> NoTx]
    /\ rowLock = {}
    /\ calls = TwoTasks

RelConcNext ==
    \E p \in Procs :
        \/ follow_user_begin(p)
        \/ follow_user_select(p)
        \/ follow_user_insert(p)
        \/ follow_user_commit(p)
        \/ unfollow_user_begin(p)
        \/ unfollow_user_select(p)
        \/ unfollow_user_delete(p)
        \/ unfollow_user_commit(p)
        \/ favorite_article(p)
        \/ unfavorite_article(p)
        \/ article_by_id(p)

\* two relationship requests at the same time, one per task, in every store
\* of EdgeStores
SpecRelConc == RelConcInit /\ [][RelConcNext]_vars

\* Published, with or without a second article, of the second user, under the
\* other slug
ConcStores ==
    {Published,
     [Published EXCEPT
        !.article = @ \cup {[article_id |-> 2, user_id |-> 2,
                             slug |-> slugify(<<"C", "!">>), title |-> <<"C", "!">>,
                             description |-> "d1", body |-> "b1",
                             tag_list |-> sort(<<>>)]},
        !.article_seq = 2]}

ConcInit ==
    /\ AuthInit
    /\ db \in ConcStores
    /\ tx = [p \in Procs |-> NoTx]
    /\ rowLock = {}
    /\ calls = TwoTasks

\* the stores of EdgeStores, with or without a comment of either user on the
\* article
OwnStores ==
    {[e EXCEPT !.article_comment = K, !.comment_seq = Cardinality(K)] :
        e \in EdgeStores,
        K \in {{}} \cup {{InsertedComment(1, a, u.user_id, "c1")} :
                            a \in Published.article, u \in Published.user}}

OwnInit ==
    /\ AuthInit
    /\ db \in OwnStores
    /\ tx = [p \in Procs |-> NoTx]
    /\ rowLock = {}
    /\ calls = OneTask

OwnNext ==
    \E p \in Procs :
        \/ create_article(p)
        \/ update_article_select(p)
        \/ update_article_check(p)
        \/ update_article_write(p)
        \/ update_article_commit(p)
        \/ delete_article(p)
        \/ add_comment(p)
        \/ delete_comment(p)
        \/ update_user(p)
        \/ follow_user_begin(p)
        \/ follow_user_select(p)
        \/ follow_user_insert(p)
        \/ follow_user_commit(p)
        \/ unfollow_user_begin(p)
        \/ unfollow_user_select(p)
        \/ unfollow_user_delete(p)
        \/ unfollow_user_commit(p)
        \/ favorite_article(p)
        \/ unfavorite_article(p)
        \/ article_by_id(p)

\* one request of any kind that writes, in every store of OwnStores
SpecOwn == OwnInit /\ [][OwnNext]_vars

MapNext ==
    \E p \in Procs :
        \/ StatementFails(p)
        \/ Return(p)

\* the handlers' statements failing on every constraint name, one at a time
SpecMap == ArticlesInit /\ [][MapNext]_vars

\* one registered user
OneUser ==
    [EmptyDb EXCEPT !.user = {[user_id |-> 1, username |-> "alice", email |-> "a@x"]},
                    !.user_seq = 1]

StatelessInit ==
    /\ AuthInit
    /\ db = OneUser
    /\ tx = [p \in Procs |-> NoTx]
    /\ rowLock = {}
    /\ calls = OneTask

\* a user is registered between two extractions
RegisterRequest(p) == authReq = NoAuth /\ create_user(p)

\* a user is updated between two extractions
UpdateRequest(p) == authReq = NoAuth /\ update_user(p)

StatelessNext ==
    \/ Tick
    \/ IssueToken
    \/ RequireAuth
    \/ OptionalAuth
    \/ AuthRespond
    \/ \E p \in Procs : RegisterRequest(p)
    \/ \E p \in Procs : UpdateRequest(p)

\* the extractors, while a request registers a user or updates one
SpecStateless == StatelessInit /\ [][StatelessNext]_vars

\* the two registered users with the hashes of their passwords
Accounts ==
    [Registered EXCEPT
        !.user = {With(u, "password_hash",
                       PasswordHash(IF u.user_id = 1 THEN "pw1" ELSE "pw2")) :
                     u \in Registered.user}]

LoginInit ==
    /\ AuthInit
    /\ db = Accounts
    /\ tx = [p \in Procs |-> NoTx]
    /\ rowLock = {}
    /\ calls = OneTask

LoginNext ==
    \/ Tick
    \/ \E p \in Procs : login_user(p)
    \/ \E p \in Procs : Return(p)

\* logins, one at a time, while time passes
SpecLogin == LoginInit /\ [][LoginNext]_vars

\* the first registered user with the hash of their password
OneAccount ==
    [OneUser EXCEPT
        !.user = {With(u, "password_hash", PasswordHash("pw1")) : u \in OneUser.user}]

HashInit ==
    /\ AuthInit
    /\ db = OneAccount
    /\ tx = [p \in Procs |-> NoTx]
    /\ rowLock = {}
    /\ calls = TwoTasks

HashNext ==
    \E p \in Procs :
        \/ hash_password_spawn(p)
        \/ verify_password_spawn(p)
        \/ JobStarts(p)
        \/ JobReturns(p)
        \/ create_user_insert(p)
        \/ login_user_verified(p)
        \/ FollowPolled(p)
        \/ Return(p)

\* registrations, logins and follow_user requests on two request tasks
SpecHash == HashInit /\ [][HashNext]_vars

UpdateInit ==
    /\ AuthInit
    /\ db = Published
    /\ tx = [p \in Procs |-> NoTx]
    /\ rowLock = {}
    /\ calls = TwoTasks

UpdateNext ==
    \E p \in Procs :
        \/ update_article_begin(p)
        \/ update_article_lock(p)
        \/ update_article_wake(p)
        \/ update_article_check(p)
        \/ update_article_write(p)
        \/ update_article_commit(p)

\* two update_article requests at the same time, one per task, neither
\* cancelled; every task goes on with the request it has taken, while that a
\* request is taken is not required
SpecUpdateFair ==
    /\ UpdateInit
    /\ [][UpdateNext]_vars
    /\ \A p \in Procs :
          /\ WF_vars(update_article_lock(p))
          /\ WF_vars(update_article_wake(p))
          /\ WF_vars(update_article_check(p))
          /\ WF_vars(update_article_write(p))
          /\ WF_vars(update_article_commit(p))

ConcNext ==
    \E p \in Procs :
        \/ update_article_begin(p)
        \/ update_article_lock(p)
        \/ update_article_wake(p)
        \/ update_article_check(p)
        \/ update_article_write(p)
        \/ update_article_commit(p)
        \/ follow_user_begin(p)
        \/ follow_user_select(p)
        \/ follow_user_insert(p)
        \/ follow_user_commit(p)
        \/ unfollow_user_begin(p)
        \/ unfollow_user_select(p)
        \/ unfollow_user_delete(p)
        \/ unfollow_user_commit(p)
        \/ Cancel(p)

\* two requests that use a transaction at the same time, one per task; either
\* may be cancelled while its transaction is open
SpecConc == ConcInit /\ [][ConcNext]_vars

(***************************************************************************)
(* Properties of the ownership-gated mutations, checked under Spec.  A     *)
(* finished call keeps its arguments, its result and the committed store   *)
(* as it was when the call began (`pre`).                                  *)
(***************************************************************************)

Finished(p, op) == calls[p].pc = "done" /\ calls[p].op = op

\* the articles a finished call's slug named when the call began
Named(c) == {r \in c.pre.article : r.slug = c.args.slug}

\* the comments a finished delete_comment named when the call began: the
\* comment with that id under the article with that slug
NamedComments(c) ==
    {m \in c.pre.article_comment :
        /\ m.comment_id = c.args.comment_id
        /\ \E a \in Named(c) : a.article_id = m.article_id}

\* the resource the call named existed and belonged to somebody else
NotTheOwner(c) ==
    IF c.op = "delete_comment"
    THEN NamedComments(c) # {} /\ \A m \in NamedComments(c) : m.user_id # c.caller
    ELSE Named(c) # {} /\ \A r \in Named(c) : r.user_id # c.caller

\* C1: for every existing article or comment and every caller who is not its
\* owner, update_article, delete_article and delete_comment return Forbidden,
\* whatever the payload, and the committed store is what it was before the call.
C1_NonOwnerForbidden ==
    \A p \in Procs :
        (/\ calls[p].pc = "done"
         /\ calls[p].op \in {"update_article", "delete_article", "delete_comment"}
         /\ NotTheOwner(calls[p]))
        => /\ calls[p].ret = Forbidden
           /\ db = calls[p].pre

\* a caller who does not own the article sent a full, valid update and got Forbidden
C1_Witness ==
    \E p \in Procs :
        /\ Finished(p, "update_article")
        /\ NotTheOwner(calls[p])
        /\ calls[p].args.title # None
        /\ calls[p].args.description # None
        /\ calls[p].args.body # None
        /\ calls[p].ret = Forbidden

InFlight(p) == calls[p].pc \in {"selected", "authorized", "written"}

\* C7: update_article commits only on its success path: when it returns
\* NotFound, Forbidden, ValidationFailed or an unexpected error its transaction
\* is closed without its writes, the committed store is what it was before the
\* call, and no row lock is left behind to block a later update; nothing is
\* committed while the call is in flight, and no write is pending until the
\* ownership check has passed.
C7_CommitOnlyOnSuccess ==
    \A p \in Procs :
        /\ (Finished(p, "update_article") /\ calls[p].ret.kind # "Ok")
           => /\ db = calls[p].pre
              /\ tx[p] = NoTx
              /\ rowLock = {}
        /\ InFlight(p)
           => /\ db = calls[p].pre
              /\ tx[p].open
              /\ rowLock = {<<calls[p].article_meta.article_id, p>>}
        /\ calls[p].pc \in {"selected", "authorized"} => tx[p].article = {}
        /\ calls[p].pc \in {"authorized", "written"}
           => calls[p].article_meta.user_id = calls[p].caller
        /\ calls[p].pc \in {"idle", "done"} => tx[p] = NoTx /\ rowLock = {}

\* the owner's update was written inside the transaction, the commit failed,
\* and the store still holds the article as it was
C7_Witness ==
    \E p \in Procs :
        /\ Finished(p, "update_article")
        /\ calls[p].ret = StoreFault
        /\ calls[p].args.title # None
        /\ \E r \in Named(calls[p]) :
              /\ r.user_id = calls[p].caller
              /\ r.title # calls[p].args.title[1]
              /\ r \in db.article
        /\ tx[p] = NoTx
        /\ rowLock = {}

\* everything of the store but its articles
Others(store) == [store EXCEPT !.article = {}]

\* C8: after a successful update_article each of title, description and body
\* is the supplied value if one was supplied and the prior value otherwise, the
\* slug is slugify(title) if a title was supplied and the prior slug otherwise,
\* the article's id, author and tags and every other row of the store are
\* unchanged, and the returned article shows the committed row (the caller's
\* favorited flag aside).
C8_PartialUpdate ==
    \A p \in Procs :
        (Finished(p, "update_article") /\ calls[p].ret.kind = "Ok")
        => LET c == calls[p]
               a == c.args
               shown == c.ret.body
           IN  /\ Cardinality(Named(c)) = 1
               /\ \A old \in Named(c) :
                    \E new \in db.article :
                       /\ new.article_id = old.article_id
                       /\ new.title = IF a.title = None THEN old.title ELSE a.title[1]
                       /\ new.description =
                             IF a.description = None THEN old.description
                             ELSE a.description[1]
                       /\ new.body = IF a.body = None THEN old.body ELSE a.body[1]
                       /\ new.slug = IF a.title = None THEN old.slug
                                     ELSE slugify(a.title[1])
                       /\ new.user_id = old.user_id
                       /\ new.tag_list = old.tag_list
                       /\ db.article \ {new} = c.pre.article \ {old}
                       /\ Others(db) = Others(c.pre)
                       /\ shown.slug = new.slug
                       /\ shown.title = new.title
                       /\ shown.description = new.description
                       /\ shown.body = new.body
                       /\ shown.tag_list = new.tag_list
                       /\ \E u \in db.user :
                             /\ u.user_id = new.user_id
                             /\ shown.author.username = u.username

\* the owner changed the title and the body and left the description out: the
\* slug moved and the description stayed
C8_Witness ==
    \E p \in Procs :
        /\ Finished(p, "update_article")
        /\ calls[p].ret.kind = "Ok"
        /\ calls[p].args.title # None
        /\ calls[p].args.description = None
        /\ calls[p].args.body # None
        /\ calls[p].ret.body.slug # calls[p].args.slug
        /\ \E old \in Named(calls[p]) :
              /\ old.body # calls[p].ret.body.body
              /\ old.description = calls[p].ret.body.description

\* C9: on the store as it was before the call, delete_article and
\* delete_comment succeed and remove the resource iff it exists and the caller
\* owns it, return Forbidden iff it exists and the caller does not own it, and
\* return NotFound iff it does not exist (a comment exists when it has that id
\* under the article with that slug); a failed deletion removes nothing; and
\* update_article returns NotFound iff no article has the slug.
C9_DeletionTrichotomy ==
    \A p \in Procs :
        calls[p].pc = "done"
        => LET c == calls[p]
               target == IF c.op = "delete_comment" THEN NamedComments(c) ELSE Named(c)
               exists == target # {}
               owns == \E r \in target : r.user_id = c.caller
           IN  /\ c.op \in {"delete_article", "delete_comment"}
                  => /\ c.ret.kind = "Ok" <=> (exists /\ owns)
                     /\ c.ret = Forbidden <=> (exists /\ ~owns)
                     /\ c.ret = NotFound <=> ~exists
                     /\ c.ret.kind # "Ok" => db = c.pre
               /\ (c.op = "delete_article" /\ c.ret.kind = "Ok")
                  => /\ db.article = c.pre.article \ target
                     /\ db.user = c.pre.user
                     /\ db.article_comment \subseteq c.pre.article_comment
               /\ (c.op = "delete_comment" /\ c.ret.kind = "Ok")
                  => db = [c.pre EXCEPT !.article_comment = @ \ target]
               /\ c.op = "update_article" => (c.ret = NotFound <=> Named(c) = {})

\* a comment's own author asks to delete it under the slug of another
\* article, which exists: there is no such comment under that article
C9_Witness ==
    \E p \in Procs :
        /\ Finished(p, "delete_comment")
        /\ Named(calls[p]) # {}
        /\ \E m \in calls[p].pre.article_comment :
              /\ m.comment_id = calls[p].args.comment_id
              /\ m.user_id = calls[p].caller
        /\ NamedComments(calls[p]) = {}
        /\ calls[p].ret = NotFound

(***************************************************************************)
(* Properties of the token and of the two extractors, checked under        *)
(* SpecAuth.  A state with authReq # NoAuth shows a request, and authRes    *)
(* what the extractor made of it at time `now`.  The code returns           *)
(* Error::Unauthorized for every failure and tells the reasons apart in     *)
(* its debug log only: InvalidToken is the outcome logged as a parse or     *)
(* verification failure, ExpiredToken the one logged as "token expired".    *)
(***************************************************************************)

Asked(extractor) == authReq # NoAuth /\ authReq.extractor = extractor

\* the request carries a "Token " header whose payload parses as a JWT
PresentsJwt ==
    /\ authReq # NoAuth
    /\ authReq.header.present
    /\ authReq.header.utf8
    /\ authReq.header.scheme = SCHEME_PREFIX
    /\ authReq.header.payload.kind = "jwt"
    /\ authReq.header.payload.claims # BadClaims

Presented == authReq.header.payload

\* the presented token declares the server's algorithm and carries the MAC of
\* its own header and claims under the server's key
GenuinelySigned ==
    /\ Presented.alg = "HS384"
    /\ Presented.sig = HmacSign(ServerKey, Presented.alg, Presented.claims)

Principal(user_id) == [ok |-> TRUE, auth_user |-> [user_id |-> user_id]]

\* C2: a token issued for subject s at time t0 carries exp = t0 + 14 days, and
\* presented to from_authorization at any time from t0 up to, not including,
\* its expiry it is verified to exactly s.
C2_RoundTrip ==
    \A i \in issued :
        /\ i.at <= now
        /\ i.token.claims.exp = i.at + 14 * 24 * 60 * 60
        /\ (/\ Asked("AuthUser")
            /\ authReq.header = TextHeader(SCHEME_PREFIX, i.token)
            /\ now < i.token.claims.exp)
           => authRes = Principal(i.user_id)

\* a token presented in the last second before its expiry, to its subject's name
C2_Witness ==
    \E i \in issued :
        /\ Asked("AuthUser")
        /\ authReq.header = TextHeader(SCHEME_PREFIX, i.token)
        /\ now = i.token.claims.exp - 1
        /\ i.at < now
        /\ authRes = Principal(i.user_id)

\* C3 as stated: verifying a token whose exp is in the past always yields
\* ExpiredToken, whatever its signature.
C3_AlwaysExpiredToken ==
    (PresentsJwt /\ Presented.claims.exp < now)
    => /\ ~authRes.ok
       /\ authRes.log = "token expired"

\* C3: verifying a token whose exp is in the past never yields a principal; it
\* yields ExpiredToken when the token's algorithm and signature are correct
\* for the configured key, and InvalidToken when they are not, the signature
\* being checked before the expiry.
C3_ExpiredNeverAccepted ==
    (PresentsJwt /\ Presented.claims.exp < now)
    => /\ ~authRes.ok
       /\ authRes.err = "Unauthorized"
       /\ authRes.log = IF GenuinelySigned THEN "token expired"
                        ELSE "JWT failed to verify"

\* a token the server issued, presented after its expiry
C3_Witness ==
    \E i \in issued :
        /\ Asked("AuthUser")
        /\ authReq.header = TextHeader(SCHEME_PREFIX, i.token)
        /\ i.token.claims.exp < now
        /\ authRes = Unauthorized("token expired")

\* C4: a token whose signature segment is not the MAC of its header and claims
\* under the configured key (a valid token's signature changed, or a token
\* signed with another key), or that declares another algorithm than HS384, is
\* rejected as InvalidToken and yields no principal, whatever its claims and
\* expiry.
C4_AlteredTokenRejected ==
    (PresentsJwt /\ ~GenuinelySigned)
    => authRes = Unauthorized("JWT failed to verify")

\* an issued, unexpired token with one bit of its signature changed
C4_Witness ==
    \E i \in issued :
        /\ PresentsJwt
        /\ Presented = [i.token EXCEPT !.sig = FlipBit(@)]
        /\ now < i.token.claims.exp
        /\ authRes = Unauthorized("JWT failed to verify")

\* why the header of the request does not authenticate, or "valid"
FailureOf(header) ==
    IF ~header.present THEN "absent"
    ELSE IF ~header.utf8 THEN "not UTF-8"
    ELSE IF header.scheme # "Token " THEN "wrong scheme"
    ELSE IF header.payload.kind # "jwt" \/ header.payload.claims = BadClaims
    THEN "unparsable"
    ELSE IF header.payload.alg # "HS384"
            \/ header.payload.sig
                 # HmacSign(ServerKey, header.payload.alg, header.payload.claims)
    THEN "mismatch"
    ELSE IF header.payload.claims.exp < now THEN "expired"
    ELSE "valid"

\* what the caller gets: the Result without the debug log
ResultOf(res) == [k \in DOMAIN res \ {"log"} |-> res[k]]

\* C5: the AuthUser extractor returns one and the same Unauthorized error for an
\* absent header, a non-UTF-8 header, a header of another scheme, an
\* unparsable token, a signature or algorithm mismatch and an expired token:
\* the result carries nothing that tells the six apart.
C5_FailuresFlattened ==
    Asked("AuthUser")
    => IF FailureOf(authReq.header) = "valid"
       THEN authRes.ok
       ELSE ResultOf(authRes) = [ok |-> FALSE, err |-> "Unauthorized"]

\* a request whose correctly signed token has expired is answered like one
\* without a header
C5_Witness ==
    /\ Asked("AuthUser")
    /\ FailureOf(authReq.header) = "expired"
    /\ ResultOf(authRes) = ResultOf(AuthUser_from_request(ServerKey, now, NoHeader))

\* C6: the MaybeAuthUser extractor succeeds with no principal when there is no
\* Authorization header; with a header it returns what the AuthUser extractor
\* returns for that header, the principal on success and Unauthorized on any
\* failure, and never the anonymous result.
C6_OptionalExtraction ==
    Asked("MaybeAuthUser")
    => LET h == authReq.header
           required == AuthUser_from_request(ServerKey, now, h)
       IN  IF ~h.present THEN authRes = [ok |-> TRUE, maybe |-> None]
           ELSE /\ authRes.ok = required.ok
                /\ authRes.ok => authRes.maybe = Some(required.auth_user)
                /\ ~authRes.ok => authRes = required
                /\ FailureOf(h) # "valid"
                   => ResultOf(authRes) = [ok |-> FALSE, err |-> "Unauthorized"]

\* an optional-auth request with a token whose signature was changed fails
C6_Witness ==
    /\ Asked("MaybeAuthUser")
    /\ FailureOf(authReq.header) = "mismatch"
    /\ ~authRes.ok
    /\ authRes.err = "Unauthorized"

(***************************************************************************)
(* Unique values, checked under SpecUnique.                                *)
(***************************************************************************)

\* the fields of a user with these values, other than the user `self`, that
\* another user of the store already has
TakenFields(store, self, username, email) ==
    {f \in {"username", "email"} :
        \E r \in store.user :
            /\ r.user_id # self
            /\ \/ f = "username" /\ r.username = username
               \/ f = "email" /\ r.email = email}

\* the call was refused as a validation failure naming one of `fields` and
\* the store is what it was before the call
RefusedNaming(c, fields) ==
    /\ c.ret.kind = "UnprocessableEntity"
    /\ c.ret.field \in fields
    /\ db = c.pre

\* C10: registering a user, or renaming one, with a username or email another
\* user has, and creating an article, or retitling one, to a slug another
\* article has, returns ValidationFailed naming a colliding field (username,
\* email or slug), never Internal, and changes nothing in the store.
C10_UniqueCollision ==
    \A p \in Procs :
        calls[p].pc = "done"
        => LET c == calls[p] IN
           /\ c.op = "create_user"
              => LET taken == TakenFields(c.pre, 0, c.args.username, c.args.email)
                 IN  taken # {} => RefusedNaming(c, taken)
           /\ c.op = "update_user"
              => \A me \in {r \in c.pre.user : r.user_id = c.caller} :
                    LET taken == TakenFields(c.pre, c.caller,
                                     IF c.args.username = None THEN me.username
                                     ELSE c.args.username[1],
                                     IF c.args.email = None THEN me.email
                                     ELSE c.args.email[1])
                    IN  taken # {} => RefusedNaming(c, taken)
           /\ c.op = "create_article"
              => ((\E r \in c.pre.article : r.slug = slugify(c.args.title))
                  => RefusedNaming(c, {"slug"}))
           /\ c.op = "update_article"
              => \A mine \in {r \in Named(c) : r.user_id = c.caller} :
                    (/\ c.args.title # None
                     /\ \E r \in c.pre.article :
                           /\ r.article_id # mine.article_id
                           /\ r.slug = slugify(c.args.title[1]))
                    => RefusedNaming(c, {"slug"})

\* the owner retitles an article to a title whose slug another article has
C10_Witness ==
    \E p \in Procs :
        /\ Finished(p, "update_article")
        /\ calls[p].args.title # None
        /\ \E mine \in Named(calls[p]), r \in calls[p].pre.article :
              /\ mine.user_id = calls[p].caller
              /\ r.article_id # mine.article_id
              /\ r.slug = slugify(calls[p].args.title[1])
        /\ calls[p].ret.kind = "UnprocessableEntity"
        /\ calls[p].ret.field = "slug"
        /\ db = calls[p].pre

(***************************************************************************)
(* Relationships, checked under SpecRel.                                   *)
(***************************************************************************)

\* the users a finished follow_user or unfollow_user named when it began
NamedUsers(c) == {u \in c.pre.user : u.username = c.args.username}

\* the rows of a store for the pair a finished relationship call is about
EdgeRows(store, c) ==
    IF c.op \in {"follow_user", "unfollow_user"}
    THEN {r \in store.follow :
            \E u \in NamedUsers(c) : SameEdge(r, c.caller, u.user_id)}
    ELSE {f \in store.article_favorite :
            /\ f.user_id = c.caller
            /\ \E a \in Named(c) : a.article_id = f.article_id}

\* the relationship rows of a store
Edges(store) == [follow |-> store.follow, article_favorite |-> store.article_favorite]

\* everything of a store but its relationship rows
NoEdges(store) == [store EXCEPT !.follow = {}, !.article_favorite = {}]

\* the target of a finished relationship call existed and, for a follow, was
\* not the caller
ValidTarget(c) ==
    IF c.op \in {"follow_user", "unfollow_user"}
    THEN NamedUsers(c) # {} /\ \A u \in NamedUsers(c) : u.user_id # c.caller
    ELSE Named(c) # {}

\* C11: follow_user on an existing user other than the caller, and
\* favorite_article on an existing article, report success whether or not the
\* edge was there (a failed commit of the store aside) and leave exactly one
\* edge for the pair; called when the edge is already there, as the second of
\* two calls in sequence is, they leave the store as it was.
C11_CreateIdempotent ==
    \A p \in Procs :
        (/\ calls[p].pc = "done"
         /\ calls[p].op \in {"follow_user", "favorite_article"}
         /\ ValidTarget(calls[p]))
        => LET c == calls[p] IN
           /\ c.ret.kind = "Ok" \/ c.ret = StoreFault
           /\ c.ret.kind = "Ok"
              => /\ Cardinality(EdgeRows(db, c)) = 1
                 /\ EdgeRows(c.pre, c) \subseteq EdgeRows(db, c)
                 /\ Edges(db).follow \ EdgeRows(db, c)
                       = Edges(c.pre).follow \ EdgeRows(c.pre, c)
                 /\ Edges(db).article_favorite \ EdgeRows(db, c)
                       = Edges(c.pre).article_favorite \ EdgeRows(c.pre, c)
                 /\ NoEdges(db) = NoEdges(c.pre)
           /\ c.ret = StoreFault => db = c.pre
           /\ EdgeRows(c.pre, c) # {} => db = c.pre
           /\ (c.op = "follow_user" /\ c.ret.kind = "Ok") => c.ret.body.following

\* a second follow of the same user: success, and the store as the first left it
C11_Witness ==
    \E p \in Procs :
        /\ Finished(p, "follow_user")
        /\ ValidTarget(calls[p])
        /\ Cardinality(EdgeRows(calls[p].pre, calls[p])) = 1
        /\ calls[p].ret.kind = "Ok"
        /\ db = calls[p].pre

\* C12: unfollow_user and unfavorite_article report success whenever the
\* target exists, whether or not the edge was present (a failed commit of the
\* store aside), and then the edge is absent and every other row is unchanged;
\* the four relationship handlers return NotFound exactly when no user has the
\* name, or no article the slug, and then the store is unchanged.
C12_RemoveAndNotFound ==
    \A p \in Procs :
        (/\ calls[p].pc = "done"
         /\ calls[p].op \in {"follow_user", "unfollow_user",
                             "favorite_article", "unfavorite_article"})
        => LET c == calls[p]
               exists == IF c.op \in {"follow_user", "unfollow_user"}
                         THEN NamedUsers(c) # {} ELSE Named(c) # {}
           IN  /\ c.ret = NotFound <=> ~exists
               /\ c.ret = NotFound => db = c.pre
               /\ (exists /\ c.op \in {"unfollow_user", "unfavorite_article"})
                  => /\ c.ret.kind = "Ok" \/ c.ret = StoreFault
                     /\ c.ret = StoreFault => db = c.pre
                     /\ c.ret.kind = "Ok"
                        => /\ EdgeRows(db, c) = {}
                           /\ Edges(db).follow = Edges(c.pre).follow \ EdgeRows(c.pre, c)
                           /\ Edges(db).article_favorite
                                 = Edges(c.pre).article_favorite \ EdgeRows(c.pre, c)
                           /\ NoEdges(db) = NoEdges(c.pre)
                     /\ (c.op = "unfollow_user" /\ c.ret.kind = "Ok")
                        => ~c.ret.body.following

\* an unfollow of a user the caller does not follow, while the other follow
\* edge exists: success, and nothing changed
C12_Witness ==
    \E p \in Procs :
        /\ Finished(p, "unfollow_user")
        /\ NamedUsers(calls[p]) # {}
        /\ EdgeRows(calls[p].pre, calls[p]) = {}
        /\ calls[p].pre.follow # {}
        /\ calls[p].ret.kind = "Ok"
        /\ db = calls[p].pre

\* C13: follow_user of the caller's own name returns Forbidden, whatever
\* follow rows there are, and writes nothing; no row of follow, committed or
\* pending, has the same user on both sides.
C13_NoSelfFollow ==
    /\ \A p \in Procs :
          (/\ Finished(p, "follow_user")
           /\ \E u \in NamedUsers(calls[p]) : u.user_id = calls[p].caller)
          => calls[p].ret = Forbidden /\ db = calls[p].pre
    /\ \A r \in db.follow : r.following_user_id # r.followed_user_id
    /\ \A p \in Procs :
          tx[p].open => \A r \in tx[p].follow_ins :
                            r.following_user_id # r.followed_user_id

\* a user who follows somebody and is followed tries to follow themselves
C13_Witness ==
    \E p \in Procs :
        /\ Finished(p, "follow_user")
        /\ \E u \in NamedUsers(calls[p]) : u.user_id = calls[p].caller
        /\ Cardinality(calls[p].pre.follow) = 2
        /\ calls[p].ret = Forbidden

(***************************************************************************)
(* Relationships under concurrency, checked under SpecRelConc.             *)
(***************************************************************************)

\* no two rows of the table agree on the columns `key` projects
AtMostOnePerKey(table, key(_)) ==
    \A r1, r2 \in table : key(r1) = key(r2) => r1 = r2

FollowKey(r) == <<r.following_user_id, r.followed_user_id>>
FavoriteKey(f) == <<f.user_id, f.article_id>>

\* C14: under every interleaving of follow, unfollow, favorite and unfavorite
\* requests, the committed tables hold at most one row per ordered (actor,
\* target) pair, and every follow_user on an existing other user and every
\* favorite_article on an existing article reports success (a failed commit
\* of the store aside): none fails on a conflict with a concurrent duplicate.
C14_ConcurrentEdges ==
    /\ AtMostOnePerKey(db.follow, FollowKey)
    /\ AtMostOnePerKey(db.article_favorite, FavoriteKey)
    /\ \A p \in Procs :
          (/\ calls[p].pc = "done"
           /\ calls[p].op \in {"follow_user", "favorite_article"}
           /\ ValidTarget(calls[p]))
          => calls[p].ret.kind = "Ok" \/ calls[p].ret = StoreFault

\* two follow requests for the same pair, each begun before the other had
\* committed, both answered with success, and one row
C14_Witness ==
    \E p, q \in Procs :
        /\ p # q
        /\ Finished(p, "follow_user")
        /\ Finished(q, "follow_user")
        /\ calls[p].caller = calls[q].caller
        /\ calls[p].args = calls[q].args
        /\ ValidTarget(calls[p])
        /\ EdgeRows(calls[p].pre, calls[p]) = {}
        /\ EdgeRows(calls[q].pre, calls[q]) = {}
        /\ calls[p].ret.kind = "Ok"
        /\ calls[q].ret.kind = "Ok"
        /\ Cardinality(EdgeRows(db, calls[p])) = 1

(***************************************************************************)
(* Properties of requests whose transactions are open at the same time,    *)
(* checked under SpecConc and, for what must eventually happen, under      *)
(* SpecUpdateFair.                                                         *)
(***************************************************************************)

\* the row an update with arguments `a` makes of row r
Applied(r, a) ==
    [r EXCEPT !.slug = IF a.title = None THEN @ ELSE slugify(a.title[1]),
              !.title = IF a.title = None THEN @ ELSE a.title[1],
              !.description = IF a.description = None THEN @ ELSE a.description[1],
              !.body = IF a.body = None THEN @ ELSE a.body[1]]

\* the kind of result call c has when it runs alone on the articles `table`
AloneKind(table, c) ==
    LET rows == {r \in table : r.slug = c.args.slug}
    IN  IF rows = {} THEN "NotFound"
        ELSE IF \E r \in rows : r.user_id # c.caller THEN "Forbidden"
        ELSE IF \E r \in rows, o \in table :
                   o.article_id # r.article_id /\ o.slug = Applied(r, c.args).slug
             THEN "UnprocessableEntity"
        ELSE "Ok"

\* the articles call c leaves when it runs alone on the articles `table`
AloneTable(table, c) ==
    IF AloneKind(table, c) # "Ok" THEN table
    ELSE {IF r.slug = c.args.slug THEN Applied(r, c.args) ELSE r : r \in table}

\* call c took effect as if it ran alone on `before`, leaving `after`; a call
\* that was cancelled or whose commit failed leaves no trace
RanAlone(before, c, after) ==
    IF c.ret.kind = "Cancelled" \/ c.ret = StoreFault THEN after = before
    ELSE after = AloneTable(before, c) /\ c.ret.kind = AloneKind(before, c)

\* both tasks have an update_article request that began on the same committed
\* store
BothUpdating ==
    /\ \A p \in Procs : calls[p].pc \notin {"idle", "off"}
                        /\ calls[p].op = "update_article"
    /\ calls["p1"].pre = calls["p2"].pre

\* the articles as some of the two updates, one after the other, leave them
SerialTables ==
    LET t == calls["p1"].pre.article
        a == calls["p1"]
        b == calls["p2"]
    IN  {t, AloneTable(t, a), AloneTable(t, b),
         AloneTable(AloneTable(t, a), b), AloneTable(AloneTable(t, b), a)}

\* in every state the committed articles are what a serial run of the two
\* updates leaves, and when both have finished their results are those of one
\* serial order
SerialOutcome ==
    BothUpdating
    => /\ db.article \in SerialTables
       /\ Others(db) = Others(calls["p1"].pre)
       /\ (\A p \in Procs : calls[p].pc = "done")
          => \E f \in Procs : \E l \in Procs \ {f} : \E mid \in SerialTables :
                /\ RanAlone(calls[f].pre.article, calls[f], mid)
                /\ RanAlone(mid, calls[l], db.article)

\* both finished update_article requests named the same article of their
\* caller with different values, began on the same store, and each would
\* succeed if it ran alone
SameArticleByOwner ==
    /\ BothUpdating
    /\ \A p \in Procs : /\ calls[p].pc = "done"
                        /\ calls[p].ret.kind # "Cancelled"
                        /\ calls[p].ret # StoreFault
                        /\ AloneKind(calls[p].pre.article, calls[p]) = "Ok"
    /\ calls["p1"].args.slug = calls["p2"].args.slug
    /\ calls["p1"].args # calls["p2"].args

\* C15 as stated: two concurrent update_article calls on the same article by
\* its owner with different values both commit.
C15_BothCommit ==
    SameArticleByOwner => \A p \in Procs : calls[p].ret.kind = "Ok"

\* C15: two concurrent update_article calls on the same article are
\* serialized: every call that began eventually finishes; the committed
\* articles are at every moment what the calls, one after the other, leave;
\* the second call acts on the article as the first committed it, so the final
\* article is the second update applied to the first's result when the first
\* kept the slug, and the second returns NotFound and writes nothing when the
\* first moved the article to another slug.
C15_Serialized ==
    /\ []SerialOutcome
    /\ [](SameArticleByOwner
          => \E f \in Procs : \E l \in Procs \ {f} :
                /\ calls[f].ret.kind = "Ok"
                /\ IF calls[f].ret.body.slug = calls[f].args.slug
                   THEN calls[l].ret.kind = "Ok"
                   ELSE calls[l].ret = NotFound)
    /\ \A p \in Procs : (calls[p].pc \in Uncommitted) ~> (calls[p].pc = "done")

\* the second update waited for the first, which changed the description and
\* committed; the second then wrote its body into the article as the first
\* left it
C15_Witness ==
    \E f \in Procs : \E l \in Procs \ {f} :
        /\ BothUpdating
        /\ calls[f].pc = "done"
        /\ calls[f].ret.kind = "Ok"
        /\ calls[f].args.description # None
        /\ calls[l].pc \in {"selected", "authorized", "written"}
        /\ calls[l].waited
        /\ calls[l].args.slug = calls[f].args.slug
        /\ calls[l].args.description = None
        /\ calls[l].args.body # None
        /\ calls[l].pc = "written"
        /\ \E r \in db.article, w \in tx[l].article :
              /\ r.slug = calls[l].args.slug
              /\ r \notin calls[l].pre.article
              /\ w = Applied(r, calls[l].args)
              /\ w.description = calls[f].args.description[1]

\* task p is between its `select ... for update` and the end of its transaction
HoldsArticle(p) ==
    /\ calls[p].pc \in {"selected", "authorized", "written"}
    /\ calls[p].op = "update_article"

\* C16: at any time at most one update_article transaction is between taking
\* an article's row lock and its commit or rollback; a task that holds the lock
\* has read the article's id and owner as they are committed now, so after
\* whatever an earlier transaction committed, and what it writes is its update
\* of the committed row; a task that has not got the lock yet has read and
\* written nothing.
C16_MutualExclusion ==
    /\ \A p \in Procs : \A q \in Procs \ {p} :
          (HoldsArticle(p) /\ HoldsArticle(q))
          => calls[p].article_meta.article_id # calls[q].article_meta.article_id
    /\ \A p \in Procs :
          HoldsArticle(p)
          => /\ <<calls[p].article_meta.article_id, p>> \in rowLock
             /\ tx[p].open
             /\ \E r \in db.article :
                   /\ r.article_id = calls[p].article_meta.article_id
                   /\ r.user_id = calls[p].article_meta.user_id
                   /\ r.slug = calls[p].args.slug
                   /\ tx[p].article = IF calls[p].pc = "written"
                                      THEN {Applied(r, calls[p].args)} ELSE {}
    /\ \A p \in Procs :
          calls[p].pc \in {"begun", "waiting"}
          => /\ tx[p].open
             /\ tx[p].article = {}
             /\ \A l \in rowLock : l[2] # p
             /\ "article_meta" \notin DOMAIN calls[p]

\* the second update waited for the first, which changed the article and
\* committed; the second now holds the lock, has passed the ownership check and
\* has the article before it as the first left it
C16_Witness ==
    \E f \in Procs : \E l \in Procs \ {f} :
        /\ Finished(f, "update_article")
        /\ calls[f].ret.kind = "Ok"
        /\ calls[l].pc = "authorized"
        /\ calls[l].op = "update_article"
        /\ calls[l].waited
        /\ calls[l].pre = calls[f].pre
        /\ \E r \in db.article :
              /\ r.article_id = calls[l].article_meta.article_id
              /\ r \notin calls[l].pre.article
              /\ r.description = calls[f].ret.body.description
              /\ r.description # "d1"

\* the call of task p has just been cancelled
WasCancelled(p) == calls[p].pc = "done" /\ calls[p].ret.kind = "Cancelled"

\* C19: when a request is cancelled while its transaction (update_article,
\* follow_user, unfollow_user) is open, the step that cancels it leaves the
\* committed store as it is, closes the transaction without its pending writes
\* and releases its row locks; a closed transaction stays closed, so nothing it
\* wrote is committed later.
C19_CancelRollsBack ==
    /\ [][\A p \in Procs :
            (~WasCancelled(p) /\ WasCancelled(p)')
            => /\ calls[p].pc \in Uncommitted
               /\ db' = db
               /\ tx'[p] = NoTx
               /\ rowLock' = {l \in rowLock : l[2] # p}]_vars
    /\ [](\A p \in Procs :
            calls[p].pc = "done" => tx[p] = NoTx /\ \A l \in rowLock : l[2] # p)

\* the owner's update_article had written a new title when it was cancelled;
\* the article still has its title and slug, and the other task, which waited
\* for the row, now holds it
C19_Witness ==
    \E p \in Procs : \E q \in Procs \ {p} :
        /\ WasCancelled(p)
        /\ calls[p].op = "update_article"
        /\ calls[p].ret.at = "written"
        /\ calls[p].args.title # None
        /\ \E r \in db.article :
              /\ r.slug = calls[p].args.slug
              /\ r.user_id = calls[p].caller
              /\ r.title # calls[p].args.title[1]
              /\ r \in calls[p].pre.article
        /\ HoldsArticle(q)
        /\ calls[q].waited
        /\ calls[q].args.slug = calls[p].args.slug

(***************************************************************************)
(* Ownership, checked under SpecOwn.                                       *)
(***************************************************************************)

\* task p finishes a call of `op` in this step
Finishes(p, op) ==
    /\ calls[p].pc # "done"
    /\ calls'[p].pc = "done"
    /\ calls'[p].op = op

\* C17: no step changes the owner of an article or a comment that exists
\* before and after it, and an article or comment that a step adds belongs to
\* the caller of the create_article or add_comment call that finishes in that
\* step; so in every reachable state each article and comment belongs to the
\* principal that created it.
C17_OwnershipImmutable ==
    [][/\ \A a \in db.article : \A b \in db'.article :
             a.article_id = b.article_id => a.user_id = b.user_id
       /\ \A a \in db.article_comment : \A b \in db'.article_comment :
             a.comment_id = b.comment_id => a.user_id = b.user_id
       /\ \A b \in db'.article :
             (\A a \in db.article : a.article_id # b.article_id)
             => \E p \in Procs : /\ Finishes(p, "create_article")
                                 /\ calls'[p].caller = b.user_id
       /\ \A b \in db'.article_comment :
             (\A a \in db.article_comment : a.comment_id # b.comment_id)
             => \E p \in Procs : /\ Finishes(p, "add_comment")
                                 /\ calls'[p].caller = b.user_id]_vars

\* the second user has commented on the first user's article: the comment is
\* the second user's and the article still the first's
C17_Witness ==
    \E p \in Procs :
        /\ Finished(p, "add_comment")
        /\ calls[p].ret.kind = "Ok"
        /\ \E a \in db.article, m \in db.article_comment :
              /\ m \notin calls[p].pre.article_comment
              /\ m.article_id = a.article_id
              /\ m.user_id = calls[p].caller
              /\ a.user_id # calls[p].caller

(***************************************************************************)
(* The mapping of constraint names to errors, checked under SpecMap.       *)
(***************************************************************************)

\* the handler's statement failed on a constraint named in the finished call
FailedOn(p) == calls[p].pc = "done" /\ "constraint" \in DOMAIN calls[p].args

\* the entries of the call site: the constraint names it maps
EntriesAt(site) ==
    CASE site \in {"create_user", "update_user"} -> {"user_username_key", "user_email_key"}
      [] site \in {"create_article", "update_article"} -> {"article_slug_key"}
      [] site = "follow_user" -> {"user_cannot_follow_self"}

\* what the call site's entry for the name says
EntryOf(c) ==
    CASE c.args.constraint = "user_username_key" ->
            [kind |-> "UnprocessableEntity", field |-> "username",
             message |-> "username taken"]
      [] c.args.constraint = "user_email_key" ->
            [kind |-> "UnprocessableEntity", field |-> "email",
             message |-> "email taken"]
      [] c.args.constraint = "article_slug_key" ->
            [kind |-> "UnprocessableEntity", field |-> "slug",
             message |-> <<"duplicate article slug: ", slugify(c.args.title)>>]
      [] c.args.constraint = "user_cannot_follow_self" -> [kind |-> "Forbidden"]

\* C18 as stated: a name that has an entry at the call site produces
\* ValidationFailed{field, message}.
C18_MappedIsValidationFailed ==
    \A p \in Procs :
        (FailedOn(p) /\ calls[p].args.constraint \in EntriesAt(calls[p].op))
        => calls[p].ret.kind = "UnprocessableEntity"

\* C18: when a statement fails on a named constraint, a name that has an entry
\* at the call site produces the error of that entry, which is
\* ValidationFailed{field, message} at create_user, update_user, create_article
\* and update_article and Forbidden at follow_user; a name with no entry there
\* gives the opaque Internal error; the outcome depends on the name alone, in
\* whichever order the lookups are chained.
C18_ConstraintMapping ==
    \A p \in Procs :
        FailedOn(p)
        => LET c == calls[p]
               res == DatabaseError(c.args.constraint)
           IN  /\ c.ret = IF c.args.constraint \in EntriesAt(c.op)
                          THEN EntryOf(c) ELSE Internal
               /\ (c.args.constraint \in EntriesAt(c.op) /\ c.op # "follow_user")
                  => c.ret.kind = "UnprocessableEntity"
               /\ c.op \in {"create_user", "update_user"}
                  => c.ret = ErrorOf(
                        on_constraint(
                           on_constraint(res, "user_email_key",
                              unprocessable_entity("email", "email taken")),
                           "user_username_key",
                           unprocessable_entity("username", "username taken")))

\* update_user failed on the constraint of the second lookup of its chain
C18_Witness ==
    \E p \in Procs :
        /\ FailedOn(p)
        /\ calls[p].op = "update_user"
        /\ calls[p].args.constraint = "user_email_key"
        /\ calls[p].ret = unprocessable_entity("email", "email taken")

(***************************************************************************)
(* Verification and the store, checked under SpecStateless.                *)
(***************************************************************************)

\* C20: the outcome of an extraction is fixed by the header presented and the
\* current time, whatever the store holds: a token with the server's algorithm
\* and signature that has not expired yields its subject, before and after
\* users are registered or updated; everything else is refused; and a token
\* whose algorithm or signature does not match is refused at every time and in
\* every store.
C20_StatelessVerification ==
    authReq # NoAuth
    => LET h == authReq.header
           outcome == FailureOf(h)
       IN  /\ outcome = "valid"
              => IF authReq.extractor = "AuthUser"
                 THEN authRes = Principal(h.payload.claims.user_id)
                 ELSE authRes = [ok |-> TRUE,
                                 maybe |-> Some([user_id |-> h.payload.claims.user_id])]
           /\ (outcome = "absent" /\ authReq.extractor = "MaybeAuthUser")
              => authRes = [ok |-> TRUE, maybe |-> None]
           /\ (/\ outcome # "valid"
               /\ ~(outcome = "absent" /\ authReq.extractor = "MaybeAuthUser"))
              => ResultOf(authRes) = [ok |-> FALSE, err |-> "Unauthorized"]
           /\ (PresentsJwt /\ ~GenuinelySigned) => ~authRes.ok

\* a user changed their own row with update_user, and the token issued to them
\* is then verified to them as before
C20_Witness ==
    \E p \in Procs : \E i \in issued :
        /\ Asked("AuthUser")
        /\ PresentsJwt
        /\ Finished(p, "update_user")
        /\ calls[p].ret.kind = "Ok"
        /\ db.user # calls[p].pre.user
        /\ i.user_id = calls[p].caller
        /\ Presented = i.token
        /\ authRes = Principal(calls[p].caller)


(***************************************************************************)
(* login_user, checked under SpecLogin.                                    *)
(***************************************************************************)

\* the accounts the finished login named by its email when it began
LoginAccounts(c) == {u \in c.pre.user : u.email = c.args.email}

\* C21: login_user with an email that matches no account fails with a
\* validation failure on field email; with a registered email and another
\* password than the account's it fails with Unauthorized; it returns a token
\* only when the email is an account's and the password is that account's, and
\* the token then verifies to that account's user_id.
C21_LoginOutcomes ==
    \A p \in Procs :
        Finished(p, "login_user")
        => LET c == calls[p]
               accounts == LoginAccounts(c)
               right == \E u \in accounts : u.password_hash.of = c.args.password
           IN  /\ accounts = {}
                  => c.ret = [kind |-> "UnprocessableEntity", field |-> "email",
                              message |-> "does not exist"]
               /\ (accounts # {} /\ ~right) => c.ret = [kind |-> "Unauthorized"]
               /\ c.ret.kind = "Ok" <=> (accounts # {} /\ right)
               /\ c.ret.kind = "Ok"
                  => \E u \in accounts :
                        /\ c.ret.body.token.claims.user_id = u.user_id
                        /\ c.ret.body.token.sig
                              = HmacSign(ServerKey, "HS384", c.ret.body.token.claims)
                        /\ c.ret.body.email = u.email

\* the second user's email with the first user's password
C21_Witness ==
    \E p \in Procs :
        /\ Finished(p, "login_user")
        /\ calls[p].args.email = "b@x"
        /\ calls[p].args.password = "pw1"
        /\ calls[p].ret = [kind |-> "Unauthorized"]


(***************************************************************************)
(* Hashing and the request tasks, checked under SpecHash.                  *)
(***************************************************************************)

\* the request of task p waits for a hash job that is queued or running
AwaitsHash(p) == calls[p].pc \in {"hash_queued", "hash_running"}

\* the request of task p is a follow_user that has begun and not finished
FollowInFlight(p) ==
    calls[p].pc \in {"profile_begun", "profile_found", "profile_written"}

\* C22: hash jobs run on the blocking pool and hold no thread that polls
\* request tasks: while a job is queued or running, a request that needs no
\* hashing can begin and a follow_user in flight can take its next step; and a
\* request that awaits a job goes on only when the job has returned, the
\* registered row then carrying the hash of the password of that request.
C22_HashingOffThePollingThreads ==
    /\ [](\A p \in Procs :
            AwaitsHash(p)
            => /\ calls[p].on = "blocking"
               /\ WorkerFree
               /\ \A q \in Procs \ {p} :
                     /\ calls[q].pc = "idle" => ENABLED follow_user_begin(q)
                     /\ FollowInFlight(q) => ENABLED FollowPolled(q))
    /\ [][\A p \in Procs :
            /\ AwaitsHash(p) => calls'[p].pc \in {"hash_queued", "hash_running",
                                                   "hash_ready"}
            /\ (calls[p].pc # "done" /\ calls'[p].pc = "done"
                /\ calls'[p].op \in {"create_user", "login_user"})
               => /\ calls[p].pc = "hash_ready"
                  /\ \A u \in db'.user \ db.user :
                        u.password_hash = PasswordHash(calls[p].args.password)]_vars

\* a registration's hash job is running while the other task's follow_user,
\* which began after the job was spawned, has found its target and is about to
\* insert
C22_Witness ==
    \E p \in Procs : \E q \in Procs \ {p} :
        /\ calls[p].pc = "hash_running"
        /\ calls[p].op = "create_user"
        /\ calls[q].pc = "profile_found"
        /\ ENABLED follow_user_insert(q)

(***************************************************************************)
(* C23: the expiry boundary                                                *)
(***************************************************************************)

\* C23 as stated: a token the server issued is accepted only while
\* now < expires_at; presented at the second now = expires_at, or at any
\* later second, it is rejected as expired.
C23_RejectedFromExpiry ==
    \A i \in issued :
        (/\ Asked("AuthUser")
         /\ authReq.header = TextHeader(SCHEME_PREFIX, i.token)
         /\ now >= i.token.claims.exp)
        => authRes = Unauthorized("token expired")

\* the token presented in the very second of its expiry is accepted
C23_AcceptedAtExpiry ==
    \E i \in issued :
        /\ Asked("AuthUser")
        /\ authReq.header = TextHeader(SCHEME_PREFIX, i.token)
        /\ now = i.token.claims.exp
        /\ authRes = Principal(i.user_id)

(***************************************************************************)
(* C24: where the self-follow is refused                                   *)
(***************************************************************************)

\* this step ends p's follow_user with Forbidden
RefusesFollow(p) ==
    /\ calls[p].pc # "done"
    /\ calls'[p].pc = "done"
    /\ calls'[p].op = "follow_user"
    /\ calls'[p].ret = Forbidden

\* C24 as stated: a follow_user that ends in Forbidden ends before a write is
\* attempted: the step that refuses it is not the insert into follow.
C24_RefusedBeforeAnyWrite ==
    [][\A p \in Procs : RefusesFollow(p) => ~follow_user_insert(p)]_vars

\* C24: follow_user has no comparison of its own. A follow_user that ends in
\* Forbidden has resolved the target, found it to be the caller, and issued
\* the insert into follow; the store refuses that insert on the check
\* constraint user_cannot_follow_self, the handler maps the refusal to
\* Forbidden, and the transaction is rolled back with no row written.
C24_RefusedByTheInsert ==
    [][\A p \in Procs :
          RefusesFollow(p)
          => /\ calls[p].pc = "profile_found"
             /\ calls[p].user.user_id = calls[p].caller
             /\ follow_user_insert(p)
             /\ InsertFollow(View(p).follow, calls[p].caller, calls[p].user.user_id)
                    = DatabaseError("user_cannot_follow_self")
             /\ db' = db
             /\ db' = calls'[p].pre
             /\ ~tx'[p].open]_vars

\* a user nobody follows has asked to follow themselves and was refused
C24_Witness ==
    \E p \in Procs :
        /\ Finished(p, "follow_user")
        /\ \E u \in NamedUsers(calls[p]) : u.user_id = calls[p].caller
        /\ \A r \in calls[p].pre.follow : r.followed_user_id # calls[p].caller
        /\ calls[p].ret = Forbidden
        /\ db = calls[p].pre

(***************************************************************************)
(* C25: slugify on every short title                                       *)
(***************************************************************************)

\* a letter of each case, a digit, both quotation marks and a separator
TitleChars == {"A", "b", "1", "'", "\"", " "}

TitlesUpTo == UNION {[1..n -> TitleChars] : n \in 0..MaxTitleLen}

SlugInit ==
    /\ AuthInit
    /\ db = EmptyDb
    /\ tx = [p \in Procs |-> NoTx]
    /\ rowLock = {}
    /\ \E title \in TitlesUpTo :
          calls = [p \in Procs |-> IF p = "p1" THEN [pc |-> "titled", title |-> title]
                                   ELSE Off]

\* let slug = slugify(&title);
slugify_call(p) ==
    /\ calls[p].pc = "titled"
    /\ calls' = [calls EXCEPT ![p] =
                   [pc |-> "slugged", title |-> @.title, slug |-> slugify(@.title)]]
    /\ UNCHANGED <<db, tx, rowLock, authVars>>

SlugNext == \E p \in Procs : slugify_call(p)

\* slugify applied to each title of at most MaxTitleLen characters
SpecSlug == SlugInit /\ [][SlugNext]_vars

\* the maximal runs of alphanumeric-or-quote characters of a title, in order
MaximalRuns(title) ==
    LET starts == {i \in 1..Len(title) :
                     /\ ~IsSeparator(title[i])
                     /\ (i = 1 \/ IsSeparator(title[i - 1]))}
        nth(k) == CHOOSE i \in starts : Cardinality({j \in starts : j < i}) = k - 1
        end(i) == CHOOSE j \in i..Len(title) :
                     /\ \A k \in i..j : ~IsSeparator(title[k])
                     /\ (j = Len(title) \/ IsSeparator(title[j + 1]))
    IN  [k \in 1..Cardinality(starts) |-> SubSeq(title, nth(k), end(nth(k)))]

\* a run with its ASCII letters lowercased and its quote characters removed
Cleaned(run) ==
    SelectSeq([i \in 1..Len(run) |-> to_ascii_lowercase(run[i])],
              LAMBDA c : c \notin QUOTE_CHARS)

\* the slug is the cleaned maximal runs of the title, joined by single hyphens
SlugOfRuns(title, slug) ==
    LET runs == MaximalRuns(title)
    IN  slug = join([k \in 1..Len(runs) |-> Cleaned(runs[k])], "-")

NoQuoteNoUpper(slug) ==
    \A i \in 1..Len(slug) : slug[i] \notin QUOTE_CHARS \cup UpperLetters

\* no segment between hyphens is empty: no leading, trailing or doubled hyphen
NoEmptySegment(slug) ==
    /\ slug # <<>> => slug[1] # "-" /\ slug[Len(slug)] # "-"
    /\ \A i \in 1..Len(slug) - 1 : ~(slug[i] = "-" /\ slug[i + 1] = "-")

\* C25 as stated: slugify(title) is the maximal runs of alphanumeric-or-quote
\* characters of the title, each with quotes removed and ASCII letters
\* lowercased, joined by single hyphens, and it contains no quote character,
\* no uppercase ASCII letter and no empty segment.
C25_SlugifyCharacterised ==
    \A p \in Procs :
        calls[p].pc = "slugged"
        => /\ SlugOfRuns(calls[p].title, calls[p].slug)
           /\ NoQuoteNoUpper(calls[p].slug)
           /\ NoEmptySegment(calls[p].slug)

\* a title with a run of quotation marks alone between two words: its slug
\* has an empty segment between two hyphens
C25_EmptySegment ==
    \E p \in Procs :
        /\ calls[p].pc = "slugged"
        /\ calls[p].title = <<"A", " ", "'", " ", "b">>
        /\ calls[p].slug = <<"a", "-", "-", "b">>

(***************************************************************************)
(* delete_article while other requests are in flight.  The handler's one   *)
(* statement runs in read committed mode: it reads the snapshot taken when *)
(* it starts; its delete waits for a transaction that holds the lock of a  *)
(* row it has found and then looks at that row as it is now committed:     *)
(* a row that is gone, or that no longer meets the where clause, is left   *)
(* out.  The subselects of the main query read the snapshot.               *)
(***************************************************************************)

\* the statement is sent and takes its snapshot
delete_article_begin(p) ==
    /\ MayStart(p)
    /\ \E caller \in db.user, slug \in Slugs :
         calls' = [calls EXCEPT ![p] =
                     [pc |-> "delete_begun", op |-> "delete_article",
                      caller |-> caller.user_id, args |-> [slug |-> slug], pre |-> db]]
    /\ UNCHANGED <<db, tx, rowLock, authVars>>

\* with deleted_article as (delete from article where slug = $1 and
\* user_id = $2 returning 1) select exists(select 1 from article where
\* slug = $1), exists(select 1 from deleted_article), and the handler's answer
delete_article_run(p) ==
    /\ calls[p].pc = "delete_begun"
    /\ LET c == calls[p]
           snapshot == c.pre
           found == {r \in snapshot.article :
                       r.slug = c.args.slug /\ r.user_id = c.caller}
           deleted_article ==
               {r \in db.article : /\ \E s \in found : s.article_id = r.article_id
                                   /\ r.slug = c.args.slug
                                   /\ r.user_id = c.caller}
           existed == \E r \in snapshot.article : r.slug = c.args.slug
           deleted == deleted_article # {}
           gone == {r.article_id : r \in deleted_article}
       IN  /\ \A s \in found : ~LockedByOther(s.article_id, p)
           /\ db' = Cascade([db EXCEPT !.article = @ \ deleted_article], gone)
           /\ calls' = [calls EXCEPT ![p] =
                          [pc |-> "done", op |-> c.op, caller |-> c.caller,
                           args |-> c.args, pre |-> c.pre,
                           ret |-> DeleteOutcome(deleted, existed)]]
    /\ UNCHANGED <<tx, rowLock, authVars>>

OwnerRaceNext ==
    \E p \in Procs :
        \/ delete_article_begin(p)
        \/ delete_article_run(p)
        \/ update_article_begin(p)
        \/ update_article_lock(p)
        \/ update_article_wake(p)
        \/ update_article_check(p)
        \/ update_article_write(p)
        \/ update_article_commit(p)

\* a delete_article or an update_article on each of two tasks, at the same
\* time, on a store with one article
SpecOwnerRace == UpdateInit /\ [][OwnerRaceNext]_vars

(***************************************************************************)
(* C26: the owner's answer under concurrency                               *)
(***************************************************************************)

\* when the call began, its slug named an article of the caller
OwnedAtStart(c) == \E r \in c.pre.article : r.slug = c.args.slug /\ r.user_id = c.caller

\* C26 as stated: under every interleaving the owner of an article never
\* receives Forbidden from delete_article or update_article on that article;
\* a delete racing with another delete, or with a title-changing update by
\* the same owner, ends in success or NotFound only.
C26_OwnerNeverForbidden ==
    \A p \in Procs :
        (/\ calls[p].pc = "done"
         /\ calls[p].op \in {"delete_article", "update_article"}
         /\ OwnedAtStart(calls[p]))
        => calls[p].ret # Forbidden

\* the owner's two deletes of one article: one succeeds, the other is
\* answered Forbidden
C26_OwnerForbidden ==
    \E p \in Procs : \E q \in Procs \ {p} :
        /\ Finished(p, "delete_article") /\ Finished(q, "delete_article")
        /\ calls[p].caller = calls[q].caller
        /\ calls[p].args = calls[q].args
        /\ OwnedAtStart(calls[p]) /\ OwnedAtStart(calls[q])
        /\ calls[p].ret = Ok(None)
        /\ calls[q].ret = Forbidden

(***************************************************************************)
(* C27: new_slug.unwrap()                                                  *)
(***************************************************************************)

\* C27: new_slug.unwrap() in update_article's constraint handler never
\* panics.  An update_article without a title writes its row with the slug
\* the row has, which no other row can hold, so its statement never violates
\* article_slug_key; a request answered "duplicate article slug" supplied a
\* title.
C27_UnwrapNeverPanics ==
    \A p \in Procs :
        /\ calls[p].pc = "done" => calls[p].ret # Panic
        /\ (calls[p].pc = "authorized" /\ calls[p].new_slug = None)
           => /\ calls[p].args.title = None
              /\ \A row \in View(p).article :
                    row.article_id = calls[p].article_meta.article_id
                    => /\ UpdatedRow(row, None, calls[p].args).slug = row.slug
                       /\ ~SlugTaken(View(p).article, row.article_id, row.slug)
        /\ (/\ Finished(p, "update_article")
            /\ calls[p].ret.kind = "UnprocessableEntity")
           => calls[p].args.title # None

\* an article updated without a title while the store holds another article,
\* and the other task's retitling refused for a duplicate slug
C27_Witness ==
    \E p \in Procs : \E q \in Procs \ {p} :
        /\ Finished(p, "update_article")
        /\ calls[p].args.title = None
        /\ calls[p].ret.kind = "Ok"
        /\ Cardinality(db.article) = 2
        /\ Finished(q, "update_article")
        /\ calls[q].ret.kind = "UnprocessableEntity"

(***************************************************************************)
(* C28: the favorited flag, with two articles to favorite                  *)
(***************************************************************************)

\* the two users, an article of each
TwoPublished == CHOOSE store \in ConcStores : Cardinality(store.article) = 2

FavInit ==
    /\ AuthInit
    /\ db = TwoPublished
    /\ tx = [p \in Procs |-> NoTx]
    /\ rowLock = {}
    /\ calls = OneTask

FavNext ==
    \E p \in Procs :
        \/ favorite_article(p)
        \/ unfavorite_article(p)
        \/ article_by_id(p)
        \/ update_article_select(p)
        \/ update_article_check(p)
        \/ update_article_write(p)
        \/ update_article_commit(p)
        \/ Return(p)

\* favorites set and removed and articles updated, one request at a time
SpecFav == FavInit /\ [][FavNext]_vars

\* the favorite rows of the article a returned projection shows
EdgesOf(body) ==
    {f \in db.article_favorite :
        \E r \in db.article : r.slug = body.slug /\ r.article_id = f.article_id}

\* p has been answered with an article projection
ReturnedArticle(p) ==
    /\ calls[p].pc = "done"
    /\ calls[p].op \in {"favorite_article", "unfavorite_article", "update_article"}
    /\ calls[p].ret.kind = "Ok"

\* C28 as stated: the favorited flag of the article returned by
\* favorite_article, unfavorite_article and update_article is true iff the
\* store holds the edge (caller, that article), so false after an
\* unfavorite_article whatever else the caller has favorited; favorites_count
\* is the number of edges targeting the article.
C28_FavoritedIsTheEdge ==
    \A p \in Procs :
        ReturnedArticle(p)
        => LET body == calls[p].ret.body
           IN  /\ body.favorited <=> \E f \in EdgesOf(body) : f.user_id = calls[p].caller
               /\ body.favorites_count = Cardinality(EdgesOf(body))

\* the caller has unfavorited an article and still has the other one as a
\* favorite: the article comes back with favorited = true
C28_FavoritedAfterUnfavorite ==
    \E p \in Procs :
        /\ ReturnedArticle(p)
        /\ calls[p].op = "unfavorite_article"
        /\ ~\E f \in EdgesOf(calls[p].ret.body) : f.user_id = calls[p].caller
        /\ \E f \in db.article_favorite : f.user_id = calls[p].caller
        /\ calls[p].ret.body.favorited

(***************************************************************************)
(* C29: what update_user changes                                           *)
(***************************************************************************)

\* the two accounts, each with a bio
Bios ==
    [Accounts EXCEPT !.user = {With(u, "bio", "bio1") : u \in Accounts.user}]

UserInit ==
    /\ AuthInit
    /\ db = Bios
    /\ tx = [p \in Procs |-> NoTx]
    /\ rowLock = {}
    /\ calls = OneTask

UserNext ==
    \E p \in Procs :
        \/ update_user(p)
        \/ login_user(p)
        \/ Return(p)

\* accounts updated and logged in to, one request at a time
SpecUser == UserInit /\ [][UserNext]_vars

\* the row of user_id in a store
RowOf(store, user_id) == CHOOSE r \in store.user : r.user_id = user_id

\* the columns of "user" a request field is written to
ColumnOf(field) == IF field = "password" THEN "password_hash" ELSE field

\* C29: update_user changes only the row of the caller: every other row, and
\* every other table, is as before; each column whose field the request did
\* not supply keeps its value; a request that supplies no field leaves the
\* store as it was and is answered with what get_current_user returns, the
\* caller's email and username as stored.
C29_UpdateUserFrame ==
    \A p \in Procs :
        Finished(p, "update_user")
        => LET c == calls[p]
               before == RowOf(c.pre, c.caller)
               after == RowOf(db, c.caller)
           IN  /\ db = [c.pre EXCEPT !.user = (@ \ {before}) \cup {after}]
               /\ \A r \in c.pre.user : r.user_id # c.caller => r \in db.user
               /\ after.user_id = before.user_id
               /\ \A field \in DOMAIN c.args :
                     c.args[field] = None
                     => after[ColumnOf(field)] = before[ColumnOf(field)]
               /\ (\A field \in DOMAIN c.args : c.args[field] = None)
                  => /\ db = c.pre
                     /\ c.ret = Ok([email |-> before.email,
                                    username |-> before.username])

\* alice has changed her bio and nothing else, while bob's row differs from
\* hers in every column
C29_Witness ==
    \E p \in Procs :
        /\ Finished(p, "update_user")
        /\ calls[p].args = [username |-> None, email |-> None,
                            password |-> None, bio |-> Some("bio2")]
        /\ calls[p].ret.kind = "Ok"
        /\ RowOf(db, calls[p].caller).bio = "bio2"
        /\ RowOf(calls[p].pre, calls[p].caller).bio = "bio1"
        /\ \E r \in db.user : r.user_id # calls[p].caller /\ r.bio = "bio1"

\* a request without any field has been answered
C29_NothingSupplied ==
    \E p \in Procs :
        /\ Finished(p, "update_user")
        /\ \A field \in DOMAIN calls[p].args : calls[p].args[field] = None
        /\ calls[p].ret.kind = "Ok"
        /\ db # Bios

(***************************************************************************)
(* The update statement of update_article in two steps, as the store       *)
(* executes it: the new row version is written, then its key is entered    *)
(* into the unique index article_slug_key.  A key that another open        *)
(* transaction has written, or has written over, makes the statement wait  *)
(* for that transaction; the store detects transactions that wait for one  *)
(* another and aborts one of them.                                         *)
(***************************************************************************)

\* the error of a transaction the store has aborted to break a deadlock
\* (SQLSTATE 40P01): it names no constraint, and `?` makes it Error::Sqlx
DeadlockAbort == [kind |-> "Internal", deadlock |-> TRUE]

\* the new version of the row is written
update_article_heap(p) ==
    /\ calls[p].pc = "authorized"
    /\ LET c == calls[p]
           rows == {r \in View(p).article : r.article_id = c.article_meta.article_id}
       IN  \/ /\ rows = {}
              /\ Fail(p, Internal)
           \/ \E row \in rows :
                /\ tx' = [tx EXCEPT ![p].article = {UpdatedRow(row, c.new_slug, c.args)}]
                /\ calls' = [calls EXCEPT ![p] =
                               With([@ EXCEPT !.pc = "heap_written"], "old_slug", row.slug)]
                /\ UNCHANGED <<db, rowLock>>
    /\ UNCHANGED authVars

\* task p's statement waits to enter its new slug into the index: task q's
\* open transaction has written a row that has, or had, that slug
IndexWait(p, q) ==
    /\ calls[p].pc = "heap_written"
    /\ q # p
    /\ tx[q].open
    /\ \E new \in tx[p].article :
          /\ new.slug # calls[p].old_slug
          /\ \E w \in tx[q].article :
                /\ w.article_id # new.article_id
                /\ \/ w.slug = new.slug
                   \/ \E r \in db.article : r.article_id = w.article_id /\ r.slug = new.slug

\* task p waits for a row lock that task q holds
LockWait(p, q) ==
    /\ calls[p].pc = "waiting"
    /\ q # p
    /\ <<calls[p].candidate, q>> \in rowLock

WaitsFor(p, q) == IndexWait(p, q) \/ LockWait(p, q)

\* a store that never looks for deadlocks
DeadlockCycle_undetected(p) == FALSE

\* task p is in a cycle of transactions that wait for one another
DeadlockCycle(p) == \E q \in Procs : WaitsFor(p, q) /\ WaitsFor(q, p)

\* the store aborts p's transaction to break the cycle
deadlock_abort(p) ==
    /\ DeadlockCycle(p)
    /\ Fail(p, DeadlockAbort)
    /\ UNCHANGED authVars

\* the slug enters the index, or violates article_slug_key; the main query
\* returns the updated article
update_article_index(p) ==
    /\ calls[p].pc = "heap_written"
    /\ \A q \in Procs : ~IndexWait(p, q)
    /\ LET c == calls[p]
           view == View(p)
           authors == {u \in view.user : u.user_id = c.caller}
       IN  \/ /\ authors = {}
              /\ Fail(p, Internal)
           \/ \E new \in tx[p].article, author \in authors :
                LET res == IF SlugTaken(view.article, new.article_id, new.slug)
                           THEN DatabaseError("article_slug_key")
                           ELSE Fetched(ArticleBody(new,
                                    UpdateFavorited(view, c.caller),
                                    FavoritesCount(view, new.article_id),
                                    author, FALSE))
                    mapped == UpdateSlugConstraint(res, c.new_slug)
                IN  IF mapped.ok
                    THEN /\ calls' = [calls EXCEPT ![p] =
                                        With([@ EXCEPT !.pc = "written"], "article",
                                             mapped.row)]
                         /\ UNCHANGED <<db, tx, rowLock>>
                    ELSE Fail(p, ErrorOf(mapped))
    /\ UNCHANGED authVars

\* a request that changes the title at most
update_article_retitle(p) ==
    /\ update_article_begin(p)
    /\ calls'[p].args.description = None
    /\ calls'[p].args.body = None

\* create_article while other requests are in flight: the insert waits for an
\* open transaction that has written a row that has, or had, its slug
create_article_insert(p) ==
    /\ create_article(p)
    /\ ~SlugKeyBusy(p, db.article_seq + 1, slugify(calls'[p].args.title))

LiveNext ==
    \E p \in Procs :
        \/ update_article_retitle(p)
        \/ update_article_lock(p)
        \/ update_article_wake(p)
        \/ update_article_check(p)
        \/ update_article_heap(p)
        \/ update_article_index(p)
        \/ update_article_commit(p)
        \/ deadlock_abort(p)
        \/ delete_article_begin(p)
        \/ delete_article_run(p)
        \/ create_article_insert(p)
        \/ follow_user_begin(p)
        \/ follow_user_select(p)
        \/ follow_user_insert(p)
        \/ follow_user_commit(p)
        \/ unfollow_user_begin(p)
        \/ unfollow_user_select(p)
        \/ unfollow_user_delete(p)
        \/ unfollow_user_commit(p)

\* one mutation on each of two tasks, at the same time.  A task that has
\* taken a request goes on with it whenever it can: the runtime polls every
\* task that is ready, the store runs every statement it is sent, wakes a
\* statement when what it waits for is gone, and aborts a transaction in a
\* deadlock.  That a request is taken is not required.
SpecLive ==
    /\ ConcInit
    /\ [][LiveNext]_vars
    /\ \A p \in Procs :
          /\ WF_vars(update_article_lock(p))
          /\ WF_vars(update_article_wake(p))
          /\ WF_vars(update_article_check(p))
          /\ WF_vars(update_article_heap(p))
          /\ WF_vars(update_article_index(p))
          /\ WF_vars(update_article_commit(p))
          /\ WF_vars(deadlock_abort(p))
          /\ WF_vars(delete_article_run(p))
          /\ WF_vars(follow_user_select(p))
          /\ WF_vars(follow_user_insert(p))
          /\ WF_vars(follow_user_commit(p))
          /\ WF_vars(unfollow_user_select(p))
          /\ WF_vars(unfollow_user_delete(p))
          /\ WF_vars(unfollow_user_commit(p))

(***************************************************************************)
(* C30: no request waits forever                                           *)
(***************************************************************************)

\* task p has taken a request and has not finished it
Unanswered(p) == calls[p].pc \notin {"idle", "off", "done"}

====
